---- MODULE Spec2Model ----
(***************************************************************************)
(* A model of groove's query-chain machinery:                              *)
(*   - the oracle candidate selector and the QueryChain.Execute loop of    *)
(*     package rewrite (SpecChain);                                        *)
(*   - the bounded worker pools of GroovePipeline.Execute and of           *)
(*     QueryChain.Generate (SpecWorkers);                                  *)
(*   - the functions ObjectiveFormulator.Formulate, eval.Evaluate,         *)
(*     learning's QueryChain.Execute and getRanking, the body of one       *)
(*     Generate goroutine, NewGroovePipeline, the measuring part of        *)
(*     GroovePipeline.Execute, the topic and generation loops of           *)
(*     Generate, two interleaved calls of rewrite's QueryChain.Execute on  *)
(*     one chain and avgICTF.Execute, each run on its own (SpecLibrary).   *)
(***************************************************************************)
EXTENDS Integers, Sequences, FiniteSets, TLC

(***************************************************************************)
(* Bounds of the model and constants of the program.                       *)
(***************************************************************************)
\* Largest number of documents a query retrieves.
MaxRet == 4
\* Largest number of relevant documents a query retrieves.
MaxRelRet == 2
\* Largest number of candidates the transformations produce in one generation.
MaxCands == 2
\* The map's entries are counted up to MaxSeen, which stands for "MaxSeen or
\* more".
MaxSeen == 2
\* The depth at which the oracle selector stops (part_002:181).
MaxDepth == 5

Min(a, b) == IF a <= b THEN a ELSE b

\* The transformations registered in the chain (qc.Transformations).
Transformations == <<"t1", "t2">>

(***************************************************************************)
(* Queries.  A query is content-addressed: it is identified with what the  *)
(* Statistics Source retrieves for it, abstracted to the two counts the    *)
(* oracle reads from eval.Evaluate: NumRet (documents retrieved) and       *)
(* NumRelRet (retrieved documents judged relevant, hence at most NumRet).  *)
(***************************************************************************)
Queries == {q \in [relRet : 0..MaxRelRet, ret : 0..MaxRet] : q.relRet <= q.ret}

NoQuery == [relRet |-> -1, ret |-> -1]

\* eval.Evaluate restricted to the two measures the oracle reads.
Evaluate(q) == [NumRelRet |-> q.relRet, NumRet |-> q.ret]

\* rewrite.TransformedQuery, reduced to its current query: the lineage
\* (QueryChain) is only ever appended to and never read by Execute or Select.
NewTransformedQuery(q) == [PipelineQuery |-> q]

EmptyTransformedQuery == [PipelineQuery |-> NoQuery]

\* TransformedQuery.Append: the appended query becomes the current one.
Append_(t, q) == [t EXCEPT !.PipelineQuery = q]

(***************************************************************************)
(* The oracle selector.                                                    *)
(***************************************************************************)
\* The mutant: a fresh selector whose previous values equal its best ones.
NewSelectorPrevIsBest ==
    [depth |-> 0, minResults |-> 0,
     bestRelRet |-> -1, prevRelRet |-> -1,
     bestRet |-> -1, prevRet |-> -1,
     seen |-> "nil"]

NewOracleQueryChainCandidateSelector ==
    [depth |-> 0, minResults |-> 0,
     bestRelRet |-> -1, prevRelRet |-> 0,
     bestRet |-> -1, prevRet |-> 0,
     seen |-> "nil"]

\* The mutant: the two tests joined by "and" instead of "or".
StoppingCriteriaAnd(s) ==
    /\ s.depth >= MaxDepth
    /\ (s.bestRelRet = s.bestRelRet /\ s.bestRet = s.prevRet)

\* The mutant: the convergence test compares nothing.
StoppingCriteriaDepthOnly(s) ==
    s.depth >= MaxDepth

StoppingCriteria(s) ==
    \/ s.depth >= MaxDepth
    \/ (s.bestRelRet = s.bestRelRet /\ s.bestRet = s.prevRet)

\* The acceptance test of Select (line 166).
\* The mutant: a candidate that retrieves more is accepted too.
AcceptsNoRetBound(c, bRelRet, bRet) ==
    /\ Evaluate(c).NumRelRet > 0
    /\ Evaluate(c).NumRelRet >= bRelRet

\* The mutant: strict improvement of the relevant count is required.
AcceptsStrict(c, bRelRet, bRet) ==
    /\ Evaluate(c).NumRelRet > 0
    /\ Evaluate(c).NumRelRet > bRelRet
    /\ Evaluate(c).NumRet <= bRet

Accepts(c, bRelRet, bRet) ==
    /\ Evaluate(c).NumRelRet > 0
    /\ Evaluate(c).NumRelRet >= bRelRet
    /\ Evaluate(c).NumRet <= bRet

VARIABLES
    cpc,          \* position of QueryChain.Execute / Select
    stop,         \* Execute's stop
    sel,          \* Execute's qc.CandidateSelector (Select's receiver)
    oc,           \* Select's own copy of the receiver
    seenMap,      \* len() of the one map object a non-nil seen points to
    tq,           \* Execute's tq
    query,        \* Select's query
    bestRelRet,   \* Select's local bestRelRet (line 120)
    bestRet,      \* Select's local bestRet
    ti,           \* transformations whose Apply has been called
    left,         \* candidates of the current transformation still to examine
    budget,       \* candidates this generation may still produce (model bound)
    result,       \* what Execute returned
    err,          \* the error Execute returned
    cand,         \* history: the candidate examined last, oc's best it met,
                  \*          and whether query.Append was called with it
    entry,        \* history: the receiver's best values when Select was entered
    improved,     \* history: a candidate was accepted in the latest Select call
    prevImproved, \* history: a candidate was accepted in the call before it
    selectCalls   \* history: calls of Select in this run

chainVars == <<cpc, stop, sel, oc, seenMap, tq, query, bestRelRet, bestRet,
               ti, left, budget, result, err, cand, entry, improved,
               prevImproved, selectCalls>>

(***************************************************************************)
(* The state of the worker pools.                                          *)
(***************************************************************************)
\* runtime.NumCPU() of the machine.
NumCPU == 2
\* Largest number of units of one dispatch loop: topics loaded by the
\* pipeline, candidates left by first-pass sampling in Generate.
MaxUnits == 3
\* Largest number of candidates second-pass sampling keeps.
MaxSample == 1
\* Generate's ceiling on the pool (part_003:73) and its generations (:69).
maxConcurrency == 16
nTimes == 5

Units == 1..MaxUnits
\* The structural hashes of the candidates' trees: two of them, so that
\* two candidates either share their tree or do not (0 stands for no hash).
Hashes == {1, 2}

\* cap(sem): part_001:223-225 and part_003:73-77, 111.
concurrency(p) ==
    IF p = "pipeline" THEN NumCPU ELSE Min(NumCPU, maxConcurrency)

\* The mutant: the send on sem before "go" left out.
SemNeverFull(n, p) == TRUE

\* "sem <- true" blocks while the channel holds cap(sem) tokens.
SemHasRoom(n, p) == n < concurrency(p)

\* The mutant: Output called without taking mu.
MutexIgnored(m) == TRUE

\* mu.Lock() blocks while another worker holds mu.
MutexFree(m) == m = 0

\* The mutant: each worker evaluating against a cache of its own.
CacherPrivate(w) == w

\* The cache a Generate worker hands to NewLogicalTree and Documents:
\* qc.QueryCacher, the same for every worker (part_003:144, 150).
CacherOf(w) == 0

VARIABLES
    prog,          \* which entry point runs
    mpc,           \* position of the dispatching goroutine
    cfg,           \* pipeline: whether Evaluations / OutputTrec.Path are set
    units,         \* units of the current dispatch loop
    di,            \* units dispatched so far
    sem,           \* tokens in the sem channel
    fill,          \* tokens the barrier loop has sent
    wk,            \* per unit: the worker goroutine's position and data
    mu,            \* holder of Generate's mutex, 0 when free
    cache,         \* per cache, per hash: what the result cache holds
    ssCalls,       \* history: Statistics Source resolutions per hash
    measurements,  \* pipeline: the measurements map, per topic
    raced,         \* workers whose map write overlapped another write
    c,             \* pipeline: results sent on the channel, per sender
    i,             \* Generate: the generation counter
    qLeft,         \* Generate: queryCandidates still to process
    gerr           \* what Generate returned

workerVars == <<prog, mpc, cfg, units, di, sem, fill, wk, mu, cache, ssCalls,
                measurements, raced, c, i, qLeft, gerr>>

Idle == [pc |-> "idle", h |-> 0, out |-> "none"]

\* Workers that were started and have not yet given their slot back.
Running == {w \in Units : wk[w].pc \notin {"idle", "done"}}

EmptyCache == [h \in Hashes |-> "absent"]

\* The result cache's GetOrCompute, per key: an entry is absent, being
\* computed by the one requester that found it absent, or holds the single
\* outcome ("ok" or "failed") that every later requester observes.
CacheStore(ch, k, h, e) == [ch EXCEPT ![k][h] = e]

NoCand == [c |-> NoQuery, bRelRet |-> -1, bRet |-> -1, appended |-> FALSE]

NoEntry == [bestRelRet |-> 0, bestRet |-> 0]

\* combinator.NewLogicalTree on the map cache, the map abstracted to its number
\* of entries (counted up to MaxSeen): on a hit the stored tree is reused, on a miss the resolved tree
\* is stored under the query's hash.
NewLogicalTree(seenLen, hit) ==
    IF hit THEN seenLen ELSE Min(seenLen + 1, MaxSeen)

(***************************************************************************)
(* The state of the library functions examined on their own (SpecLibrary): *)
(* fn names the function that runs.                                        *)
(***************************************************************************)
\* Largest number of judged-relevant documents of a topic.
MaxRelevant == 52
\* Largest number of post-processors of a formulator.
MaxPostProcessing == 1
\* The number of relevant studies Formulate's guard names (part_000:138-139).
minRelevant == 50

VARIABLES
    fn,            \* the function that runs
    fpc,           \* Formulate: its position
    qrels,         \* Formulate: the judgements, o.qrels
    docs,          \* Formulate: len(docs)
    fetched,       \* Formulate: calls of fetchDocuments
    derived,       \* Formulate: what derive returned as its error
    post,          \* Formulate: post-processors called so far
    fret           \* Formulate: what it returned

formulateVars == <<fpc, qrels, docs, fetched, derived, post, fret>>

\* Largest number of evaluators handed to Evaluate.
MaxEvaluators == 3
\* Largest number of documents in a result list.
MaxResults == 2

VARIABLES
    epc,           \* Evaluate: its position
    evaluators,    \* Evaluate: the evaluators, by name
    results,       \* Evaluate: len(*results)
    judged,        \* Evaluate: whether qrels.Qrels holds the topic
    scored,        \* Evaluate: evaluators the loop has passed
    scores,        \* Evaluate: the map it builds
    calls          \* Evaluate: history of the calls of Score

evaluateVars == <<epc, evaluators, results, judged, scored, scores, calls>>

\* Largest number of Select calls the selector of learning.QueryChain
\* goes through before its StoppingCriteria is true.
MaxSelects == 3

VARIABLES
    lpc,           \* learning Execute: its position
    lcq,           \* learning Execute: cq
    lsel,          \* learning Execute: sel
    lstop,         \* learning Execute: stop
    ld,            \* learning Execute: d
    lret,          \* learning Execute: what it returned
    selected,      \* learning Execute: history of what Select returned last
    selects        \* learning Execute: history, the calls of Select

executeVars == <<lpc, lcq, lsel, lstop, ld, lret, selected, selects>>

\* Largest candidate list handed to getRanking, and most lines of a
\* score file.
MaxRanked == 3
MaxLines == 3

VARIABLES
    rpc,           \* getRanking: its position
    candidates,    \* getRanking: len(candidates); candidate k is k
    lines,         \* getRanking: the lines of the score file
    ranks,         \* getRanking: ranks
    ri,            \* getRanking: i
    rret           \* getRanking: what it returned

rankingVars == <<rpc, candidates, lines, ranks, ri, rret>>

\* Most candidates of one dispatch loop whose goroutines are followed
\* statement by statement.
MaxBodies == 2

VARIABLES
    bpc,           \* worker body: per candidate, the goroutine's position
    bhash,         \* worker body: per candidate, HashCQR(c.Query)
    bfn,           \* worker body: per candidate, fn once the file is written
    lf,            \* worker body: per candidate, lf once it is built
    bout,          \* worker body: per candidate, how the goroutine ended
    bevaluators,   \* worker body: qc.Evaluators, by name
    files,         \* worker body: the files in transformed_queries
    sink,          \* worker body: the records appended to the generation file
    bmu            \* worker body: the holder of mu, 0 when free

bodyVars == <<bpc, bhash, bfn, lf, bout, bevaluators, files, sink, bmu>>

\* Most components handed to NewGroovePipeline.
MaxComponents == 2

VARIABLES
    npc,           \* NewGroovePipeline: its position
    components,    \* NewGroovePipeline: the components, by constructor
    ncomponent,    \* NewGroovePipeline: components the loop has passed
    gp             \* NewGroovePipeline: gp

builderVars == <<npc, components, ncomponent, gp>>

\* Most queries loaded by the pipeline, and most measurements configured,
\* where the measurement rows are followed.
MaxQueries == 3
MaxMeasurements == 1

VARIABLES
    tpc,                 \* measuring: position in Execute's first part
    queries,             \* measuring: the loaded queries, their sizes
    nMeasurements,       \* measuring: len(pipeline.Measurements)
    topics,              \* measuring: topics
    measurementQueries,  \* measuring: measurementQueries
    data,                \* measuring: data
    handed               \* measuring: what the formatters were handed

measureVars == <<tpc, queries, nMeasurements, topics, measurementQueries,
                 data, handed>>

VARIABLES
    kpc,              \* Generate's loops: the position
    ktopic,           \* Generate's loops: the topic of qc.Queries reached
    kgen,             \* Generate's loops: i, the generation
    kq,               \* Generate's loops: queryCandidates processed
    queryCandidates,  \* Generate's loops: len(queryCandidates)
    nextCandidates,   \* Generate's loops: nextCandidates, how many
                      \*    candidates of each topic and generation it holds
    secondPass,       \* Generate's loops: history, the latest call of
                      \*    second-pass sampling and what it was handed
    kerr              \* Generate's loops: what Generate returned

generationVars == <<kpc, ktopic, kgen, kq, queryCandidates, nextCandidates,
                    secondPass, kerr>>

VARIABLES
    configured,  \* chain runs: the CandidateSelector of the configured
                 \*    QueryChain and the map its seen field points to
    heap,        \* chain runs: the maps made by Select, each with its
                 \*    number of entries and (history) the runs that
                 \*    inserted into it
    xpc,         \* chain runs: the position of each Execute call
    xsel,        \* chain runs: qc.CandidateSelector of each call's own qc
    xref,        \* chain runs: the map that selector's seen points to
    xstop,       \* chain runs: stop of each call
    xfrom        \* chain runs: history, the selector each call began with

runsVars == <<configured, heap, xpc, xsel, xref, xstop, xfrom>>

\* Most terms and most fields of the query avgICTF.Execute is given.
MaxTerms == 2
MaxFields == 2

VARIABLES
    ipc,      \* avgICTF.Execute: the position
    iterms,   \* avgICTF.Execute: len(terms)
    ifields,  \* avgICTF.Execute: len(fields)
    ifield,   \* avgICTF.Execute: fields whose VocabularySize was asked
    iterm,    \* avgICTF.Execute: terms of the current field done
    iadded,   \* avgICTF.Execute: addends of sumICTF so far
    icalls,   \* avgICTF.Execute: history, the Statistics Source calls made
    iret      \* avgICTF.Execute: what it returned

ictfVars == <<ipc, iterms, ifields, ifield, iterm, iadded, icalls, iret>>

libraryVars ==
    <<fn, formulateVars, evaluateVars, executeVars, rankingVars, bodyVars,
      builderVars, measureVars, generationVars, runsVars, ictfVars>>

\* What a step of one function leaves unchanged besides its own variables.
notFormulate ==
    <<chainVars, workerVars, fn, evaluateVars, executeVars, rankingVars,
      bodyVars, builderVars, measureVars, generationVars, runsVars, ictfVars>>
notEvaluate ==
    <<chainVars, workerVars, fn, formulateVars, executeVars, rankingVars,
      bodyVars, builderVars, measureVars, generationVars, runsVars, ictfVars>>
notExecute ==
    <<chainVars, workerVars, fn, formulateVars, evaluateVars, rankingVars,
      bodyVars, builderVars, measureVars, generationVars, runsVars, ictfVars>>
notRanking ==
    <<chainVars, workerVars, fn, formulateVars, evaluateVars, executeVars,
      bodyVars, builderVars, measureVars, generationVars, runsVars, ictfVars>>
notBody ==
    <<chainVars, workerVars, fn, formulateVars, evaluateVars, executeVars,
      rankingVars, builderVars, measureVars, generationVars, runsVars,
      ictfVars>>
notBuilder ==
    <<chainVars, workerVars, fn, formulateVars, evaluateVars, executeVars,
      rankingVars, bodyVars, measureVars, generationVars, runsVars, ictfVars>>
notMeasure ==
    <<chainVars, workerVars, fn, formulateVars, evaluateVars, executeVars,
      rankingVars, bodyVars, builderVars, generationVars, runsVars, ictfVars>>
notGenerations ==
    <<chainVars, workerVars, fn, formulateVars, evaluateVars, executeVars,
      rankingVars, bodyVars, builderVars, measureVars, runsVars, ictfVars>>
notRuns ==
    <<chainVars, workerVars, fn, formulateVars, evaluateVars, executeVars,
      rankingVars, bodyVars, builderVars, measureVars, generationVars,
      ictfVars>>
notICTF ==
    <<chainVars, workerVars, fn, formulateVars, evaluateVars, executeVars,
      rankingVars, bodyVars, builderVars, measureVars, generationVars,
      runsVars>>

\* CandidateQuery{}: the empty candidate.
EmptyCandidate == [chain |-> -1]

\* NewCandidateQuery(q.Query, q.Topic, nil): the seed, nothing applied.
SeedCandidate == [chain |-> 0]

\* Nothing returned yet.
NoReturn == [cq |-> EmptyCandidate, err |-> "none", selects |-> 0]

\* No Select call yet.
NoSelect == [cq |-> EmptyCandidate, sel |-> [n |-> 0, stops |-> FALSE],
             err |-> "none"]

vars == <<chainVars, workerVars, libraryVars>>

\* Formulate's variables before it runs, and while another function runs.
FormulateAtRest ==
    /\ fpc = "off"
    /\ qrels = [relevant |-> 0, integerIds |-> TRUE, postProcessing |-> 0]
    /\ docs = 0
    /\ fetched = 0
    /\ derived = "none"
    /\ post = 0
    /\ fret = [queries |-> "none", err |-> "none"]

\* Evaluate's variables before it runs, and while another function runs.
EvaluateAtRest ==
    /\ epc = "off"
    /\ evaluators = <<>>
    /\ results = 0
    /\ judged = FALSE
    /\ scored = 0
    /\ scores = <<>>
    /\ calls = <<>>

\* learning Execute's variables before it runs, and while another
\* function runs.
ExecuteAtRest ==
    /\ lpc = "off"
    /\ lcq = EmptyCandidate
    /\ lsel = [n |-> 0, stops |-> FALSE]
    /\ lstop = FALSE
    /\ ld = 0
    /\ lret = NoReturn
    /\ selected = NoSelect
    /\ selects = 0

\* getRanking's variables before it runs, and while another function runs.
RankingAtRest ==
    /\ rpc = "off"
    /\ candidates = 0
    /\ lines = <<>>
    /\ ranks = <<>>
    /\ ri = 0
    /\ rret = [query |-> 0, err |-> "none"]

\* The worker bodies' variables before they run, and while another
\* function runs.
BodyAtRest ==
    /\ bpc = <<>>
    /\ bhash = <<>>
    /\ bfn = <<>>
    /\ lf = <<>>
    /\ bout = <<>>
    /\ bevaluators = <<>>
    /\ files = {}
    /\ sink = <<>>
    /\ bmu = 0

\* NewGroovePipeline's variables before it runs, and while another
\* function runs.
BuilderAtRest ==
    /\ npc = "off"
    /\ components = <<>>
    /\ ncomponent = 0
    /\ gp = <<>>

\* The variables of Execute's measuring part before it runs, and while
\* another function runs.
MeasureAtRest ==
    /\ tpc = "off"
    /\ queries = <<>>
    /\ nMeasurements = 0
    /\ topics = <<>>
    /\ measurementQueries = <<>>
    /\ data = <<>>
    /\ handed = <<>>

\* The variables of Generate's loops before they run, and while another
\* function runs.
GenerationsAtRest ==
    /\ kpc = "off"
    /\ ktopic = 0
    /\ kgen = 0
    /\ kq = 0
    /\ queryCandidates = 0
    /\ nextCandidates = <<>>
    /\ secondPass = <<>>
    /\ kerr = "none"

\* The variables of the chain runs before they start, and while another
\* function runs.
RunsAtRest ==
    /\ configured = <<>>
    /\ heap = <<>>
    /\ xpc = <<>>
    /\ xsel = <<>>
    /\ xref = <<>>
    /\ xstop = <<>>
    /\ xfrom = <<>>

\* The variables of avgICTF.Execute before it runs, and while another
\* function runs.
ICTFAtRest ==
    /\ ipc = "off"
    /\ iterms = 0
    /\ ifields = 0
    /\ ifield = 0
    /\ iterm = 0
    /\ iadded = 0
    /\ icalls = <<>>
    /\ iret = <<>>

\* The functions' variables while the chain or the pools are examined.
LibraryAtRest ==
    /\ fn = "none"
    /\ FormulateAtRest
    /\ EvaluateAtRest
    /\ ExecuteAtRest
    /\ RankingAtRest
    /\ BodyAtRest
    /\ BuilderAtRest
    /\ MeasureAtRest
    /\ GenerationsAtRest
    /\ RunsAtRest
    /\ ICTFAtRest

\* The pools' variables while the chain is examined.
WorkersAtRest ==
    /\ prog = "none"
    /\ mpc = "off"
    /\ cfg = [evaluations |-> FALSE, trec |-> FALSE]
    /\ units = 0
    /\ di = 0
    /\ sem = 0
    /\ fill = 0
    /\ wk = [w \in Units |-> Idle]
    /\ mu = 0
    /\ cache = [k \in {0} \cup Units |-> EmptyCache]
    /\ ssCalls = [h \in Hashes |-> 0]
    /\ measurements = [w \in Units |-> "none"]
    /\ raced = {}
    /\ c = [w \in {0} \cup Units |-> <<>>]
    /\ i = 0
    /\ qLeft = 0
    /\ gerr = "none"

InitChain ==
    /\ cpc = "start"
    /\ stop = FALSE
    /\ sel = NewOracleQueryChainCandidateSelector
    /\ oc = NewOracleQueryChainCandidateSelector
    /\ seenMap = 0
    /\ tq \in {NewTransformedQuery(q) : q \in Queries}
    /\ query = EmptyTransformedQuery
    /\ bestRelRet = -1
    /\ bestRet = -1
    /\ ti = 0
    /\ left = 0
    /\ budget = 0
    /\ result = EmptyTransformedQuery
    /\ err = "nil"
    /\ cand = NoCand
    /\ entry = NoEntry
    /\ improved = FALSE
    /\ prevImproved = FALSE
    /\ selectCalls = 0
    /\ WorkersAtRest
    /\ LibraryAtRest

\* Execute, lines 34-35.
ExecuteStart ==
    /\ cpc = "start"
    /\ stop' = StoppingCriteria(sel)
    /\ cpc' = "loop"
    /\ UNCHANGED <<sel, oc, seenMap, tq, query, bestRelRet, bestRet, ti, left,
                   budget, result, err, cand, entry, improved, prevImproved,
                   selectCalls>>
    /\ UNCHANGED <<workerVars, libraryVars>>

\* Select returns with an error: Execute stores what Select returned
\* (line 37) and returns the empty query with the error (line 39).
SelectFails(q, e) ==
    /\ tq' = q
    /\ sel' = oc
    /\ result' = EmptyTransformedQuery
    /\ err' = e
    /\ cpc' = "failed"
    /\ cand' = NoCand
    /\ ti' = 0
    /\ left' = 0
    /\ budget' = 0

\* The mutant: Select on a pointer receiver, depth written through.
SelectEntryShared(s) ==
    [s EXCEPT !.depth = s.depth + 1]

\* What entering Select leaves in the receiver: Select has a value receiver,
\* the caller's selector is copied (line 93).
SelectEntryReceiver(s) == s

\* Execute line 36-37 calling Select, lines 93-100.
SelectEnter ==
    /\ cpc = "loop"
    /\ ~stop
    /\ sel' = SelectEntryReceiver(sel)
    /\ oc' = [sel EXCEPT !.depth = sel.depth + 1,
                         !.prevRelRet = sel.bestRelRet,
                         !.prevRet = sel.bestRet,
                         !.seen = "map"]
    /\ seenMap' = IF sel.seen = "nil" THEN 0 ELSE seenMap
    /\ query' = tq
    /\ selectCalls' = selectCalls + 1
    /\ entry' = [bestRelRet |-> sel.bestRelRet, bestRet |-> sel.bestRet]
    /\ prevImproved' = improved
    /\ improved' = FALSE
    /\ ti' = 0
    /\ left' = 0
    /\ budget' = MaxCands
    /\ IF sel.minResults = 0
         THEN /\ cpc' = "baseline"
              /\ UNCHANGED <<bestRelRet, bestRet>>
         ELSE /\ cpc' = "transform"
              /\ bestRelRet' = sel.bestRelRet
              /\ bestRet' = sel.bestRet
    /\ UNCHANGED <<stop, tq, result, err, cand>>
    /\ UNCHANGED <<workerVars, libraryVars>>

\* Select lines 102-120: the unmodified query seeds the running best.
Baseline ==
    /\ cpc = "baseline"
    /\ \/ /\ seenMap' = NewLogicalTree(seenMap, oc.depth > 1)
          /\ LET evaluation == Evaluate(query.PipelineQuery)
             IN /\ oc' = [oc EXCEPT !.minResults = evaluation.NumRet,
                                    !.bestRelRet = evaluation.NumRelRet,
                                    !.bestRet = evaluation.NumRet]
                /\ bestRelRet' = evaluation.NumRelRet
                /\ bestRet' = evaluation.NumRet
          /\ cpc' = "transform"
          /\ UNCHANGED <<tq, sel, result, err, cand, ti, left, budget>>
       \/ /\ oc.depth = 1
          /\ SelectFails(query, "retrieval")
          /\ UNCHANGED <<oc, seenMap, bestRelRet, bestRet>>
    /\ UNCHANGED <<stop, query, entry, improved, prevImproved, selectCalls>>
    /\ UNCHANGED <<workerVars, libraryVars>>

\* Select lines 124-132: the next transformation is applied.
Apply ==
    /\ cpc = "transform"
    /\ left = 0
    /\ ti < Len(Transformations)
    /\ \/ /\ ti' = ti + 1
          /\ \E n \in 0..budget :
               /\ left' = n
               /\ budget' = budget - n
          /\ UNCHANGED <<cpc, tq, sel, result, err, cand>>
       \/ SelectFails(EmptyTransformedQuery, "transformation")
    /\ UNCHANGED <<stop, oc, seenMap, query, bestRelRet, bestRet, entry,
                   improved, prevImproved, selectCalls>>
    /\ UNCHANGED <<workerVars, libraryVars>>

\* Select lines 134-175: one candidate of the generation is examined.
Examine ==
    /\ cpc = "transform"
    /\ left > 0
    /\ \E q \in Queries :
         \/ /\ \E hit \in BOOLEAN :
                  /\ hit => seenMap > 0
                  /\ seenMap' = NewLogicalTree(seenMap, hit)
            /\ left' = left - 1
            /\ IF Accepts(q, bestRelRet, bestRet)
                 THEN /\ cand' = [c |-> q, bRelRet |-> oc.bestRelRet,
                                  bRet |-> oc.bestRet, appended |-> TRUE]
                      /\ bestRelRet' = Evaluate(q).NumRelRet
                      /\ bestRet' = Evaluate(q).NumRet
                      /\ oc' = [oc EXCEPT !.bestRelRet = Evaluate(q).NumRelRet,
                                          !.bestRet = Evaluate(q).NumRet]
                      /\ query' = Append_(query, q)
                      /\ improved' = TRUE
                 ELSE /\ cand' = [c |-> q, bRelRet |-> oc.bestRelRet,
                                  bRet |-> oc.bestRet, appended |-> FALSE]
                      /\ UNCHANGED <<bestRelRet, bestRet, oc, query,
                                     improved>>
            /\ UNCHANGED <<cpc, tq, sel, result, err, ti, budget>>
         \/ /\ SelectFails(query, "retrieval")
            /\ UNCHANGED <<oc, seenMap, query, bestRelRet, bestRet, improved>>
    /\ UNCHANGED <<stop, entry, prevImproved, selectCalls>>
    /\ UNCHANGED <<workerVars, libraryVars>>

\* Select line 177 and Execute lines 37-41: the new state replaces the old.
SelectReturn ==
    /\ cpc = "transform"
    /\ left = 0
    /\ ti = Len(Transformations)
    /\ tq' = query
    /\ sel' = oc
    /\ stop' = StoppingCriteria(oc)
    /\ cpc' = "loop"
    /\ cand' = NoCand
    /\ ti' = 0
    /\ budget' = 0
    /\ UNCHANGED <<oc, seenMap, query, bestRelRet, bestRet, left, result, err,
                   entry, improved, prevImproved, selectCalls>>
    /\ UNCHANGED <<workerVars, libraryVars>>

\* Execute line 43.
ExecuteReturn ==
    /\ cpc = "loop"
    /\ stop
    /\ result' = tq
    /\ cpc' = "returned"
    /\ UNCHANGED <<stop, sel, oc, seenMap, tq, query, bestRelRet, bestRet, ti,
                   left, budget, err, cand, entry, improved, prevImproved,
                   selectCalls>>
    /\ UNCHANGED <<workerVars, libraryVars>>

NextChain ==
    \/ ExecuteStart
    \/ SelectEnter
    \/ Baseline
    \/ Apply
    \/ Examine
    \/ SelectReturn
    \/ ExecuteReturn


(***************************************************************************)
(* The worker pools of GroovePipeline.Execute (prog = "pipeline") and of   *)
(* QueryChain.Generate (prog = "generate").                                *)
(***************************************************************************)
\* The chain's variables while the worker pools are examined.
ChainAtRest ==
    /\ cpc = "off"
    /\ stop = FALSE
    /\ sel = NewOracleQueryChainCandidateSelector
    /\ oc = NewOracleQueryChainCandidateSelector
    /\ seenMap = 0
    /\ tq = EmptyTransformedQuery
    /\ query = EmptyTransformedQuery
    /\ bestRelRet = -1
    /\ bestRet = -1
    /\ ti = 0
    /\ left = 0
    /\ budget = 0
    /\ result = EmptyTransformedQuery
    /\ err = "nil"
    /\ cand = NoCand
    /\ entry = NoEntry
    /\ improved = FALSE
    /\ prevImproved = FALSE
    /\ selectCalls = 0

InitWorkers ==
    /\ prog \in {"pipeline", "generate"}
    /\ mpc = IF prog = "pipeline" THEN "load" ELSE "open"
    /\ cfg \in [evaluations : BOOLEAN, trec : BOOLEAN]
    /\ prog = "generate" => cfg = [evaluations |-> FALSE, trec |-> FALSE]
    /\ units = 0
    /\ di = 0
    /\ sem = 0
    /\ fill = 0
    /\ wk = [w \in Units |-> Idle]
    /\ mu = 0
    /\ cache = [k \in {0} \cup Units |-> EmptyCache]
    /\ ssCalls = [h \in Hashes |-> 0]
    /\ measurements = [w \in Units |-> "none"]
    /\ raced = {}
    /\ c = [w \in {0} \cup Units |-> <<>>]
    /\ i = 0
    /\ qLeft = 0
    /\ gerr = "none"
    /\ ChainAtRest
    /\ LibraryAtRest

\* A result is sent on the pipeline's channel by sender s (0: Execute itself).
Send(s, type) == c' = [c EXCEPT ![s] = Append(c[s], type)]

(***************************************************************************)
(* GroovePipeline.Execute.                                                 *)
(***************************************************************************)
\* Lines 126-133: the queries are loaded.
PLoad ==
    /\ prog = "pipeline" /\ mpc = "load"
    /\ \/ /\ \E n \in 0..MaxUnits : units' = n
          /\ mpc' = "measure"
          /\ UNCHANGED c
       \/ /\ Send(0, "Error")
          /\ mpc' = "aborted"
          /\ UNCHANGED units
    /\ UNCHANGED <<prog, cfg, di, sem, fill, wk, mu, cache, ssCalls,
                   measurements, raced, i, qLeft, gerr>>
    /\ UNCHANGED <<chainVars, libraryVars>>

\* Lines 136-213: preprocessing, measurements and their formatting.  An
\* Elasticsearch transformation on another kind of Statistics Source ends
\* the process (log.Fatal, line 155), nothing sent.
PMeasure ==
    /\ prog = "pipeline" /\ mpc = "measure"
    /\ \/ /\ Send(0, "Measurement")
          /\ mpc' = IF cfg.evaluations \/ cfg.trec THEN "dispatch" ELSE "finish"
       \/ /\ Send(0, "Error")
          /\ mpc' = "aborted"
       \/ /\ mpc' = "exited"
          /\ UNCHANGED c
    /\ UNCHANGED <<prog, cfg, units, di, sem, fill, wk, mu, cache, ssCalls,
                   measurements, raced, i, qLeft, gerr>>
    /\ UNCHANGED <<chainVars, libraryVars>>

\* Lines 226-228: a slot is taken, then the topic's goroutine is started.
PDispatch ==
    /\ prog = "pipeline" /\ mpc = "dispatch"
    /\ di < units
    /\ SemHasRoom(sem, prog)
    /\ sem' = sem + 1
    /\ di' = di + 1
    /\ wk' = [wk EXCEPT ![di + 1] = [Idle EXCEPT !.pc = "work"]]
    /\ UNCHANGED <<prog, mpc, cfg, units, fill, mu, cache, ssCalls,
                   measurements, raced, c, i, qLeft, gerr>>
    /\ UNCHANGED <<chainVars, libraryVars>>

\* Line 279: the dispatch loop is over.
PDispatched ==
    /\ prog = "pipeline" /\ mpc = "dispatch"
    /\ di = units
    /\ mpc' = "barrier"
    /\ fill' = 0
    /\ UNCHANGED <<prog, cfg, units, di, sem, wk, mu, cache, ssCalls,
                   measurements, raced, c, i, qLeft, gerr>>
    /\ UNCHANGED <<chainVars, libraryVars>>

\* Where a pipeline worker goes once its query was executed.
AfterExecute == IF cfg.evaluations THEN "evaluate"
                ELSE IF cfg.trec THEN "trec" ELSE "transformation"

\* Lines 231-255: the query chain, then the query itself, are executed; an
\* error of either is sent with the topic and ends the goroutine.
PWork(w) ==
    /\ prog = "pipeline" /\ mpc # "crashed" /\ wk[w].pc = "work"
    /\ \/ /\ wk' = [wk EXCEPT ![w].pc = AfterExecute]
          /\ UNCHANGED c
       \/ /\ Send(w, "Error")
          /\ wk' = [wk EXCEPT ![w].pc = "release", ![w].out = "error"]
    /\ UNCHANGED <<prog, mpc, cfg, units, di, sem, fill, mu, cache, ssCalls,
                   measurements, raced, i, qLeft, gerr>>
    /\ UNCHANGED <<chainVars, libraryVars>>

\* Line 259: the assignment to the shared map starts; no lock is taken.
PMapWriteBegin(w) ==
    /\ prog = "pipeline" /\ mpc # "crashed" /\ wk[w].pc = "evaluate"
    /\ wk' = [wk EXCEPT ![w].pc = "writing"]
    /\ raced' = IF \E v \in Units : v # w /\ wk[v].pc = "writing"
                  THEN raced \cup {w} \cup {v \in Units : wk[v].pc = "writing"}
                  ELSE raced
    /\ UNCHANGED <<prog, mpc, cfg, units, di, sem, fill, mu, cache, ssCalls,
                   measurements, c, i, qLeft, gerr>>
    /\ UNCHANGED <<chainVars, libraryVars>>

\* Line 259: the assignment ends.  A write that overlapped another write
\* of the map is a data race: the entry is stored, or lost, or the runtime
\* ends the process ("concurrent map writes").
PMapWriteEnd(w) ==
    /\ prog = "pipeline" /\ mpc # "crashed" /\ wk[w].pc = "writing"
    /\ \/ /\ measurements' = [measurements EXCEPT ![w] = "stored"]
          /\ wk' = [wk EXCEPT ![w].pc = IF cfg.trec THEN "trec"
                                         ELSE "transformation"]
          /\ UNCHANGED mpc
       \/ /\ w \in raced
          /\ measurements' = [measurements EXCEPT ![w] = "lost"]
          /\ wk' = [wk EXCEPT ![w].pc = IF cfg.trec THEN "trec"
                                         ELSE "transformation"]
          /\ UNCHANGED mpc
       \/ /\ w \in raced
          /\ mpc' = "crashed"
          /\ UNCHANGED <<measurements, wk>>
    /\ raced' = raced \ {w}
    /\ UNCHANGED <<prog, cfg, units, di, sem, fill, mu, cache, ssCalls, c, i,
                   qLeft, gerr>>
    /\ UNCHANGED <<chainVars, libraryVars>>

\* Lines 263-269: the topic's results are sent.
PSendTrec(w) ==
    /\ prog = "pipeline" /\ mpc # "crashed" /\ wk[w].pc = "trec"
    /\ Send(w, "TrecResult")
    /\ wk' = [wk EXCEPT ![w].pc = "transformation"]
    /\ UNCHANGED <<prog, mpc, cfg, units, di, sem, fill, mu, cache, ssCalls,
                   measurements, raced, i, qLeft, gerr>>
    /\ UNCHANGED <<chainVars, libraryVars>>

\* Lines 272-275: the transformation is sent.
PSendTransformation(w) ==
    /\ prog = "pipeline" /\ mpc # "crashed" /\ wk[w].pc = "transformation"
    /\ Send(w, "Transformation")
    /\ wk' = [wk EXCEPT ![w].pc = "release", ![w].out = "sent"]
    /\ UNCHANGED <<prog, mpc, cfg, units, di, sem, fill, mu, cache, ssCalls,
                   measurements, raced, i, qLeft, gerr>>
    /\ UNCHANGED <<chainVars, libraryVars>>

\* Line 229: the deferred receive gives the slot back.
PRelease(w) ==
    /\ prog = "pipeline" /\ mpc # "crashed" /\ wk[w].pc = "release"
    /\ sem > 0
    /\ sem' = sem - 1
    /\ wk' = [wk EXCEPT ![w].pc = "done"]
    /\ UNCHANGED <<prog, mpc, cfg, units, di, fill, mu, cache, ssCalls,
                   measurements, raced, c, i, qLeft, gerr>>
    /\ UNCHANGED <<chainVars, libraryVars>>

\* Lines 282-284: the barrier fills the channel to its capacity.
PBarrier ==
    /\ prog = "pipeline" /\ mpc = "barrier"
    /\ fill < concurrency(prog)
    /\ SemHasRoom(sem, prog)
    /\ sem' = sem + 1
    /\ fill' = fill + 1
    /\ UNCHANGED <<prog, mpc, cfg, units, di, wk, mu, cache, ssCalls,
                   measurements, raced, c, i, qLeft, gerr>>
    /\ UNCHANGED <<chainVars, libraryVars>>

\* Lines 287-305: the evaluations are formatted and sent.
PEvaluation ==
    /\ prog = "pipeline" /\ mpc = "barrier"
    /\ fill = concurrency(prog)
    /\ \/ /\ Send(0, "Evaluation")
          /\ mpc' = "finish"
       \/ /\ Send(0, "Error")
          /\ mpc' = "aborted"
    /\ UNCHANGED <<prog, cfg, units, di, sem, fill, wk, mu, cache, ssCalls,
                   measurements, raced, i, qLeft, gerr>>
    /\ UNCHANGED <<chainVars, libraryVars>>

\* Lines 309-311.
PDone ==
    /\ prog = "pipeline" /\ mpc = "finish"
    /\ Send(0, "Done")
    /\ mpc' = "done"
    /\ UNCHANGED <<prog, cfg, units, di, sem, fill, wk, mu, cache, ssCalls,
                   measurements, raced, i, qLeft, gerr>>
    /\ UNCHANGED <<chainVars, libraryVars>>

NextPipeline ==
    \/ PLoad
    \/ PMeasure
    \/ PDispatch
    \/ PDispatched
    \/ PBarrier
    \/ PEvaluation
    \/ PDone
    \/ \E w \in Units : PWork(w)
    \/ \E w \in Units : PMapWriteBegin(w)
    \/ \E w \in Units : PMapWriteEnd(w)
    \/ \E w \in Units : PSendTrec(w)
    \/ \E w \in Units : PSendTransformation(w)
    \/ \E w \in Units : PRelease(w)


(***************************************************************************)
(* QueryChain.Generate.                                                    *)
(***************************************************************************)
\* Where Generate continues for generation g with n queryCandidates to
\* process: the loops at lines 79, 83 and 85.
LoopPosition(g, n) == IF g >= nTimes THEN "topic"
                      ELSE IF n > 0 THEN "variations" ELSE "sample"

\* The mutant: the error of OpenFile not checked.
OpenErrorIgnored == "topic"

\* Lines 64-66: where Generate goes when OpenFile fails: it returns.
OpenError == "returned"

\* Lines 63-66: the generation file is opened.
GOpen ==
    /\ prog = "generate" /\ mpc = "open"
    /\ \/ /\ mpc' = "topic"
          /\ UNCHANGED gerr
       \/ /\ mpc' = OpenError
          /\ gerr' = "open"
    /\ UNCHANGED <<prog, cfg, units, di, sem, fill, wk, mu, cache, ssCalls,
                   measurements, raced, c, i, qLeft>>
    /\ UNCHANGED <<chainVars, libraryVars>>

\* Lines 79-83 and 202: the next topic starts with its seed as the only
\* candidate, or no topic is left and Generate returns nil.
GTopic ==
    /\ prog = "generate" /\ mpc = "topic"
    /\ \/ /\ i' = 0
          /\ qLeft' = 1
          /\ mpc' = LoopPosition(0, 1)
          /\ UNCHANGED gerr
       \/ /\ mpc' = "returned"
          /\ gerr' = "nil"
          /\ UNCHANGED <<i, qLeft>>
    /\ UNCHANGED <<prog, cfg, units, di, sem, fill, wk, mu, cache, ssCalls,
                   measurements, raced, c>>
    /\ UNCHANGED <<chainVars, libraryVars>>

\* Lines 94-111: the variations of one candidate are generated and
\* sampled, and a new semaphore is made for them.
GVariations ==
    /\ prog = "generate" /\ mpc = "variations"
    /\ \/ /\ \E n \in 0..MaxUnits : units' = n
          /\ di' = 0
          /\ sem' = 0
          /\ fill' = 0
          /\ wk' = [w \in Units |-> Idle]
          /\ mpc' = "dispatch"
          /\ UNCHANGED gerr
       \/ /\ mpc' = "returned"
          /\ gerr' = "variations"
          /\ UNCHANGED <<units, di, sem, fill, wk>>
    /\ UNCHANGED <<prog, cfg, mu, cache, ssCalls, measurements, raced, c, i,
                   qLeft>>
    /\ UNCHANGED <<chainVars, libraryVars>>

\* Lines 112-116: a slot is taken, then the candidate's goroutine starts.
GDispatch ==
    /\ prog = "generate" /\ mpc = "dispatch"
    /\ di < units
    /\ SemHasRoom(sem, prog)
    /\ sem' = sem + 1
    /\ di' = di + 1
    /\ \E h \in Hashes :
          wk' = [wk EXCEPT ![di + 1] = [Idle EXCEPT !.pc = "tree", !.h = h]]
    /\ UNCHANGED <<prog, mpc, cfg, units, fill, mu, cache, ssCalls,
                   measurements, raced, c, i, qLeft, gerr>>
    /\ UNCHANGED <<chainVars, libraryVars>>

\* Line 186: the dispatch loop is over.
GDispatched ==
    /\ prog = "generate" /\ mpc = "dispatch"
    /\ di = units
    /\ mpc' = "barrier"
    /\ fill' = 0
    /\ UNCHANGED <<prog, cfg, units, di, sem, wk, mu, cache, ssCalls,
                   measurements, raced, c, i, qLeft, gerr>>
    /\ UNCHANGED <<chainVars, libraryVars>>

\* Lines 188-190: the barrier fills the channel to its capacity.
GBarrier ==
    /\ prog = "generate" /\ mpc = "barrier"
    /\ fill < concurrency(prog)
    /\ SemHasRoom(sem, prog)
    /\ sem' = sem + 1
    /\ fill' = fill + 1
    /\ UNCHANGED <<prog, mpc, cfg, units, di, wk, mu, cache, ssCalls,
                   measurements, raced, c, i, qLeft, gerr>>
    /\ UNCHANGED <<chainVars, libraryVars>>

\* Lines 191-192: the barrier is passed; the next candidate of the
\* generation follows, or the generation's loop is over.
GFinished ==
    /\ prog = "generate" /\ mpc = "barrier"
    /\ fill = concurrency(prog)
    /\ qLeft' = qLeft - 1
    /\ mpc' = LoopPosition(i, qLeft - 1)
    /\ UNCHANGED <<prog, cfg, units, di, sem, fill, wk, mu, cache, ssCalls,
                   measurements, raced, c, i, gerr>>
    /\ UNCHANGED <<chainVars, libraryVars>>

\* Lines 195-200: second-pass sampling chooses the next generation.
GSample ==
    /\ prog = "generate" /\ mpc = "sample"
    /\ \/ /\ \E n \in 0..MaxSample :
                /\ qLeft' = n
                /\ mpc' = LoopPosition(i + 1, n)
          /\ i' = i + 1
          /\ UNCHANGED gerr
       \/ /\ mpc' = "returned"
          /\ gerr' = "sample"
          /\ UNCHANGED <<i, qLeft>>
    /\ UNCHANGED <<prog, cfg, units, di, sem, fill, wk, mu, cache, ssCalls,
                   measurements, raced, c>>
    /\ UNCHANGED <<chainVars, libraryVars>>

\* What follows a resolved tree: the query file is written outside the
\* lock (lines 152-166); only then does the worker go for the lock.
AfterTree == {"lock", "release"}

\* The mutant: an error branch without its return.
SkipFallsThrough == [Idle EXCEPT !.pc = "lock", !.out = "skipped"]

\* An error branch of the worker (lines 122-126, 129-133, 136-140, 145-149,
\* 162-166): the error is printed and the goroutine returns, its candidate
\* skipped.
Skip == [Idle EXCEPT !.pc = "release", !.out = "skipped"]

\* A worker past the cache: its hash is of no further use to the cache.
Resolved(pc) == IF pc = "release" THEN Skip ELSE [Idle EXCEPT !.pc = pc]

\* Lines 121-150: the candidate is compiled and its tree is looked up in
\* the cache.  An absent entry makes this worker its computer; an entry
\* being computed makes it wait; a stored result or failure is observed.
GTree(w) ==
    /\ prog = "generate" /\ wk[w].pc = "tree"
    /\ LET k == CacherOf(w)
           h == wk[w].h
       IN  \/ /\ wk' = [wk EXCEPT ![w] = Skip]
              /\ UNCHANGED <<cache, ssCalls>>
           \/ /\ cache[k][h] = "absent"
              /\ cache' = CacheStore(cache, k, h, "computing")
              /\ ssCalls' = [ssCalls EXCEPT ![h] = ssCalls[h] + 1]
              /\ wk' = [wk EXCEPT ![w].pc = "resolve"]
           \/ /\ cache[k][h] = "ok"
              /\ \E pc \in AfterTree :
                    wk' = [wk EXCEPT ![w] = Resolved(pc)]
              /\ UNCHANGED <<cache, ssCalls>>
           \/ /\ cache[k][h] = "failed"
              /\ wk' = [wk EXCEPT ![w] = Skip]
              /\ UNCHANGED <<cache, ssCalls>>
    /\ UNCHANGED <<prog, mpc, cfg, units, di, sem, fill, mu, measurements,
                   raced, c, i, qLeft, gerr>>
    /\ UNCHANGED <<chainVars, libraryVars>>

\* The Statistics Source answers the worker that computes the entry; the
\* result, or the failure, is stored under the hash.
GResolve(w) ==
    /\ prog = "generate" /\ wk[w].pc = "resolve"
    /\ LET k == CacherOf(w)
           h == wk[w].h
       IN  \/ /\ cache' = CacheStore(cache, k, h, "ok")
              /\ \E pc \in AfterTree :
                    wk' = [wk EXCEPT ![w] = Resolved(pc)]
           \/ /\ cache' = CacheStore(cache, k, h, "failed")
              /\ wk' = [wk EXCEPT ![w] = Skip]
    /\ UNCHANGED <<prog, mpc, cfg, units, di, sem, fill, mu, ssCalls,
                   measurements, raced, c, i, qLeft, gerr>>
    /\ UNCHANGED <<chainVars, libraryVars>>

\* Lines 176-178: mu is taken and Output is entered.
GLock(w) ==
    /\ prog = "generate" /\ wk[w].pc = "lock"
    /\ MutexFree(mu)
    /\ mu' = w
    /\ wk' = [wk EXCEPT ![w].pc = "output"]
    /\ UNCHANGED <<prog, mpc, cfg, units, di, sem, fill, cache, ssCalls,
                   measurements, raced, c, i, qLeft, gerr>>
    /\ UNCHANGED <<chainVars, libraryVars>>

\* Lines 178-184: Output returns, with the record written or with an
\* error that is printed, and the deferred Unlock runs.
GOutput(w) ==
    /\ prog = "generate" /\ wk[w].pc = "output"
    /\ \E out \in {"record", "failed"} :
          wk' = [wk EXCEPT ![w].pc = "release", ![w].out = out]
    /\ mu' = 0
    /\ UNCHANGED <<prog, mpc, cfg, units, di, sem, fill, cache, ssCalls,
                   measurements, raced, c, i, qLeft, gerr>>
    /\ UNCHANGED <<chainVars, libraryVars>>

\* Line 117: the deferred receive gives the slot back.
GRelease(w) ==
    /\ prog = "generate" /\ wk[w].pc = "release"
    /\ sem > 0
    /\ sem' = sem - 1
    /\ wk' = [wk EXCEPT ![w].pc = "done"]
    /\ UNCHANGED <<prog, mpc, cfg, units, di, fill, mu, cache, ssCalls,
                   measurements, raced, c, i, qLeft, gerr>>
    /\ UNCHANGED <<chainVars, libraryVars>>

NextGenerate ==
    \/ GOpen
    \/ GTopic
    \/ GVariations
    \/ GDispatch
    \/ GDispatched
    \/ GBarrier
    \/ GFinished
    \/ GSample
    \/ \E w \in Units : GTree(w)
    \/ \E w \in Units : GResolve(w)
    \/ \E w \in Units : GLock(w)
    \/ \E w \in Units : GOutput(w)
    \/ \E w \in Units : GRelease(w)

NextWorkers == NextPipeline \/ NextGenerate

(***************************************************************************)
(* ObjectiveFormulator.Formulate (fn = "Formulate").                       *)
(***************************************************************************)
\* The inputs of Formulate: how many judgements have a positive score,
\* whether the document ids of all of them are integers, and how many
\* post-processors the formulator has.
FormulateInputs ==
    {q \in [relevant : 0..MaxRelevant, integerIds : BOOLEAN,
            postProcessing : 0..MaxPostProcessing] :
        q.relevant = 0 => q.integerIds}

\* The mutant: the guard the error message announces (minimum 50).
TooFewBelowMinimum(n) == n < minRelevant

\* The guard of line 138: len(docs) <= 50.
TooFew(n) == n <= minRelevant

\* Lines 124-136: the relevant judgements are collected; an id that is
\* not an integer makes Formulate panic.
FCollect ==
    /\ fn = "Formulate" /\ fpc = "collect"
    /\ IF qrels.integerIds
         THEN /\ docs' = qrels.relevant
              /\ fpc' = "guard"
              /\ UNCHANGED fret
         ELSE /\ fpc' = "panicked"
              /\ fret' = [queries |-> "none", err |-> "panic"]
              /\ UNCHANGED docs
    /\ UNCHANGED <<qrels, fetched, derived, post>>
    /\ UNCHANGED notFormulate

\* Lines 138-140: too few relevant studies are rejected.
FGuard ==
    /\ fn = "Formulate" /\ fpc = "guard"
    /\ IF TooFew(docs)
         THEN /\ fpc' = "returned"
              /\ fret' = [queries |-> "nil", err |-> "not enough"]
         ELSE /\ fpc' = "fetch"
              /\ UNCHANGED fret
    /\ UNCHANGED <<qrels, docs, fetched, derived, post>>
    /\ UNCHANGED notFormulate

\* Lines 143-146: the relevant documents are fetched; an error panics.
FFetch ==
    /\ fn = "Formulate" /\ fpc = "fetch"
    /\ fetched' = fetched + 1
    /\ \/ /\ fpc' = "analyse"
          /\ UNCHANGED fret
       \/ /\ fpc' = "panicked"
          /\ fret' = [queries |-> "none", err |-> "panic"]
    /\ UNCHANGED <<qrels, docs, derived, post>>
    /\ UNCHANGED notFormulate

\* Lines 149-156: the set is split and analysed; an error panics.
FAnalyse ==
    /\ fn = "Formulate" /\ fpc = "analyse"
    /\ \/ /\ fpc' = "derive"
          /\ UNCHANGED fret
       \/ /\ fpc' = "panicked"
          /\ fret' = [queries |-> "none", err |-> "panic"]
    /\ UNCHANGED <<qrels, docs, fetched, derived, post>>
    /\ UNCHANGED notFormulate

\* Line 158: the queries are derived; the error is assigned and not read.
FDerive ==
    /\ fn = "Formulate" /\ fpc = "derive"
    /\ \E e \in {"nil", "error"} : derived' = e
    /\ fpc' = "post"
    /\ UNCHANGED <<qrels, docs, fetched, post, fret>>
    /\ UNCHANGED notFormulate

\* Lines 161-170: the next post-processor is applied to both queries; its
\* error is returned.
FPostProcess ==
    /\ fn = "Formulate" /\ fpc = "post"
    /\ post < qrels.postProcessing
    /\ post' = post + 1
    /\ \/ UNCHANGED <<fpc, fret>>
       \/ /\ fpc' = "returned"
          /\ fret' = [queries |-> "nil", err |-> "post-processing"]
    /\ UNCHANGED <<qrels, docs, fetched, derived>>
    /\ UNCHANGED notFormulate

\* Lines 172-182: the two queries are returned with a nil error.
FReturn ==
    /\ fn = "Formulate" /\ fpc = "post"
    /\ post = qrels.postProcessing
    /\ fpc' = "returned"
    /\ fret' = [queries |-> "q1, q2", err |-> "nil"]
    /\ UNCHANGED <<qrels, docs, fetched, derived, post>>
    /\ UNCHANGED notFormulate

NextFormulate ==
    \/ FCollect
    \/ FGuard
    \/ FFetch
    \/ FAnalyse
    \/ FDerive
    \/ FPostProcess
    \/ FReturn

(***************************************************************************)
(* eval.Evaluate (fn = "Evaluate").                                        *)
(***************************************************************************)
\* The names of the evaluators; two evaluators of a list can share one.
Names == {"a", "b"}

\* The lists of at most MaxEvaluators evaluators.
EvaluatorLists ==
    UNION {[1..n -> Names] : n \in 0..MaxEvaluators}

\* Line 20: the judgements of the topic, nil when the file has none.
TopicQrels(j) == IF j THEN "qrels of the topic" ELSE "nil"

\* Lines 23-32: the list handed to Score is the result list when
\* documents were retrieved, and a new empty list when none was.
Handed(r) == IF r > 0 THEN r ELSE 0

\* What evaluator.Score returns: a value of its three inputs.
Score(name, r, q) == [evaluator |-> name, retrieved |-> r, qrels |-> q]

\* The mutant: nothing is scored when nothing was retrieved.
ToScoreIfRetrieved(es, r) == IF r > 0 THEN es ELSE <<>>

\* Lines 24 and 29: both branches range over all the evaluators.
ToScore(es, r) == es

\* Lines 23-32: the next evaluator scores the list and its score is stored
\* under its name.
EScore ==
    /\ fn = "Evaluate" /\ epc = "loop"
    /\ scored < Len(ToScore(evaluators, results))
    /\ LET name == ToScore(evaluators, results)[scored + 1]
           v == Score(name, Handed(results), TopicQrels(judged))
       IN  /\ calls' = Append(calls, v)
           /\ scores' = [n \in DOMAIN scores \cup {name} |->
                            IF n = name THEN v ELSE scores[n]]
    /\ scored' = scored + 1
    /\ UNCHANGED <<epc, evaluators, results, judged>>
    /\ UNCHANGED notEvaluate

\* Line 34: the map is returned.
EReturn ==
    /\ fn = "Evaluate" /\ epc = "loop"
    /\ scored = Len(ToScore(evaluators, results))
    /\ epc' = "returned"
    /\ UNCHANGED <<evaluators, results, judged, scored, scores, calls>>
    /\ UNCHANGED notEvaluate

NextEvaluate ==
    \/ EScore
    \/ EReturn

(***************************************************************************)
(* QueryChain.Execute of package learning (fn = "Execute").  The selector  *)
(* is any implementation of the interface: its state is the number of      *)
(* Select calls behind it and what its StoppingCriteria answers.           *)
(***************************************************************************)
\* The selector states a Select call on s can return: a state one call
\* further, stopped or not, and stopped for sure after MaxSelects calls.
SelectorsAfter(s) ==
    {t \in [n : {s.n + 1}, stops : BOOLEAN] : t.n >= MaxSelects => t.stops}

\* The candidates a Select call can return for cq: cq itself, which is
\* appended to the candidates (line 304), or a variation of it.
CandidatesAfter(cq) == {cq, [chain |-> cq.chain + 1]}

\* The mutant: any error of Select is returned.
FatalAlso(e) == e # "nil"

\* Line 308: the errors of Select that make Execute return.
Fatal(e) == e # "nil" /\ e # "ErrCacheMiss"

\* The mutant: the candidate reached so far returned with the error.
FailedWithCandidate(cq) == cq

\* Lines 296 and 309: the candidate returned together with an error.
Failed(cq) == EmptyCandidate

\* The mutant: the selector never asked, the loop always entered.
StopsNever(s) == FALSE

\* Lines 289 and 316: sel.StoppingCriteria().
Stops(s) == s.stops

\* Lines 287-290: the seed, the selector and its first answer.
LStart ==
    /\ fn = "Execute" /\ lpc = "start"
    /\ lcq' = SeedCandidate
    /\ lstop' = Stops(lsel)
    /\ ld' = 0
    /\ lpc' = "loop"
    /\ UNCHANGED <<lsel, lret, selected, selects>>
    /\ UNCHANGED notExecute

\* Lines 291-306: the variations of cq are generated; an error is
\* returned, an empty list ends the loop.
LVariations ==
    /\ fn = "Execute" /\ lpc = "loop"
    /\ ~lstop
    /\ \/ /\ lpc' = "returned"
          /\ lret' = [cq |-> Failed(lcq), err |-> "variations",
                      selects |-> selects]
          /\ UNCHANGED <<lstop, ld>>
       \/ /\ lstop' = TRUE
          /\ UNCHANGED <<lpc, lret, ld>>
       \/ /\ ld' = ld + 1
          /\ lpc' = "select"
          /\ UNCHANGED <<lstop, lret>>
    /\ UNCHANGED <<lcq, lsel, selected, selects>>
    /\ UNCHANGED notExecute

\* Lines 307-316: Select is called; a fatal error is returned, otherwise
\* its candidate and its selector are taken and the selector is asked.
LSelect ==
    /\ fn = "Execute" /\ lpc = "select"
    /\ selects' = selects + 1
    /\ \E cq \in CandidatesAfter(lcq), sl \in SelectorsAfter(lsel),
          e \in {"nil", "ErrCacheMiss", "error"} :
          /\ selected' = [cq |-> cq, sel |-> sl, err |-> e]
          /\ lcq' = cq
          /\ lsel' = sl
          /\ IF Fatal(e)
               THEN /\ lpc' = "returned"
                    /\ lret' = [cq |-> Failed(cq), err |-> e,
                                selects |-> selects + 1]
                    /\ UNCHANGED lstop
               ELSE /\ lpc' = "loop"
                    /\ lstop' = Stops(sl)
                    /\ UNCHANGED lret
    /\ UNCHANGED ld
    /\ UNCHANGED notExecute

\* Line 318: the loop has ended and cq is returned with a nil error.
LReturn ==
    /\ fn = "Execute" /\ lpc = "loop"
    /\ lstop
    /\ lpc' = "returned"
    /\ lret' = [cq |-> lcq, err |-> "nil", selects |-> selects]
    /\ UNCHANGED <<lcq, lsel, lstop, ld, selected, selects>>
    /\ UNCHANGED notExecute

NextExecute ==
    \/ LStart
    \/ LVariations
    \/ LSelect
    \/ LReturn

(***************************************************************************)
(* getRanking of package learning (fn = "getRanking").  The candidates of  *)
(* the list are their positions 1..candidates; 0 is CandidateQuery{}.      *)
(***************************************************************************)
\* The texts of a line: a decimal number, "NaN", or no number at all.
Scores == {-2, -1, 0, 1}
LineTexts ==
    [kind : {"number"}, v : Scores] \cup [kind : {"NaN", "text"}, v : {0}]

ScoreFiles == UNION {[1..n -> LineTexts] : n \in 0..MaxLines}

\* strconv.ParseFloat(text, 64): the number, NaN for "NaN", or an error.
ParseFloat(text) ==
    [err |-> text.kind = "text", nan |-> text.kind = "NaN", r |-> text.v]

\* ranking{r, candidates[k]}
Ranking(f, k) == [nan |-> f.nan, rank |-> f.r, query |-> k]

\* make([]ranking, len(candidates)): every entry the zero ranking.
MakeRanks(n) == [k \in 1..n |-> [nan |-> FALSE, rank |-> 0, query |-> 0]]

\* The mutant: the smaller rank first.
LessAscending(a, b) == ~a.nan /\ ~b.nan /\ a.rank < b.rank

\* The less function of line 351: the greater rank first; a comparison
\* with NaN is false.
Less(a, b) == ~a.nan /\ ~b.nan /\ a.rank > b.rank

\* sort.Slice(ranks, less): a rearrangement of ranks in which no entry is
\* less than an entry before it.  The sort is not stable, so equal ranks
\* come in any order; with a NaN less is no ordering and any
\* rearrangement can come out.
Sorted(rs) ==
    LET n == Len(rs)
        Perms == {f \in [1..n -> 1..n] : \A a, b \in 1..n : a # b => f[a] # f[b]}
        Ordered(t) == \A a, b \in 1..n : a < b => ~Less(t[b], t[a])
        Results == {[k \in 1..n |-> rs[f[k]]] : f \in Perms}
    IN  IF \E k \in 1..n : rs[k].nan
          THEN Results
          ELSE {t \in Results : Ordered(t)}

\* Lines 327-334: an empty list returns the empty candidate; the file is
\* read, and an error of ReadFile is returned.
RRead ==
    /\ fn = "getRanking" /\ rpc = "start"
    /\ IF candidates = 0
         THEN /\ rpc' = "returned"
              /\ rret' = [query |-> 0, err |-> "nil"]
              /\ UNCHANGED ranks
         ELSE \/ /\ rpc' = "returned"
                 /\ rret' = [query |-> 0, err |-> "read"]
                 /\ UNCHANGED ranks
              \/ /\ rpc' = "scan"
                 /\ ranks' = MakeRanks(candidates)
                 /\ UNCHANGED rret
    /\ UNCHANGED <<candidates, lines, ri>>
    /\ UNCHANGED notRanking

\* Lines 339-349: one line is scanned, parsed and stored at position i;
\* a parse error is returned, a position past the end of ranks panics.
RScan ==
    /\ fn = "getRanking" /\ rpc = "scan"
    /\ ri < Len(lines)
    /\ LET f == ParseFloat(lines[ri + 1])
       IN  IF f.err
             THEN /\ rpc' = "returned"
                  /\ rret' = [query |-> 0, err |-> "parse"]
                  /\ UNCHANGED <<ranks, ri>>
             ELSE IF ri + 1 > Len(ranks)
                    THEN /\ rpc' = "panicked"
                         /\ UNCHANGED <<ranks, ri, rret>>
                    ELSE /\ ranks' = [ranks EXCEPT ![ri + 1] = Ranking(f, ri + 1)]
                         /\ ri' = ri + 1
                         /\ UNCHANGED <<rpc, rret>>
    /\ UNCHANGED <<candidates, lines>>
    /\ UNCHANGED notRanking

\* Lines 351-353: the scanner is at the end of the file; ranks is sorted.
RSort ==
    /\ fn = "getRanking" /\ rpc = "scan"
    /\ ri = Len(lines)
    /\ ranks' \in Sorted(ranks)
    /\ rpc' = "sorted"
    /\ UNCHANGED <<candidates, lines, ri, rret>>
    /\ UNCHANGED notRanking

\* Lines 355-359: the first entry's candidate is returned.
RReturn ==
    /\ fn = "getRanking" /\ rpc = "sorted"
    /\ rret' = IF Len(ranks) = 0
                 THEN [query |-> 0, err |-> "nil"]
                 ELSE [query |-> ranks[1].query, err |-> "nil"]
    /\ rpc' = "returned"
    /\ UNCHANGED <<candidates, lines, ranks, ri>>
    /\ UNCHANGED notRanking

NextRanking ==
    \/ RRead
    \/ RScan
    \/ RSort
    \/ RReturn

(***************************************************************************)
(* The goroutine of QueryChain.Generate, part_003:116-185, statement by    *)
(* statement (fn = "worker"): the candidates of one dispatch loop, each    *)
(* in its own goroutine.  The pool that starts them is SpecWorkers'; here  *)
(* it is what one goroutine computes, writes and appends that is followed. *)
(* Candidate w has the features w and retrieves w documents.               *)
(***************************************************************************)
Bodies == 1..MaxBodies

\* The values of combinator.HashCQR(c.Query) that occur: two candidates
\* can have the same one.
QueryHashes == {7, 12}

NoRecord == [Topic |-> "", Comment |-> <<>>, Features |-> 0, Scores |-> <<>>]

DecimalDigits == <<"0", "1", "2", "3", "4", "5", "6", "7", "8", "9">>

\* strconv.Itoa: the decimal digits of n, after a minus sign when n < 0.
RECURSIVE Itoa(_)
Itoa(n) ==
    IF n < 0 THEN <<"-">> \o Itoa(-n)
    ELSE IF n < 10 THEN <<DecimalDigits[n + 1]>>
    ELSE Itoa(n \div 10) \o <<DecimalDigits[(n % 10) + 1]>>

\* The mutant: the file named after the topic.
FileNameTopic(h) == <<"t">>

\* Line 154: fn, the name of the candidate's file.  The hashes of the
\* model are small enough for int(...) to leave them as they are.
FileName(h) == Itoa(h)

\* eval.Evaluate(qc.Evaluators, &r, qc.QrelsFile, gq.Topic), line 152:
\* the map from each evaluator's name to its score of the results.
Evaluation(es, r) ==
    [n \in {es[k] : k \in 1..Len(es)} |->
        Score(n, Handed(r), TopicQrels(TRUE))]

\* The mutant: the scores left as make made them.
RecordScoresUnset(es, evaluation) ==
    [k \in 1..Len(es) |-> [evaluator |-> "", retrieved |-> 0, qrels |-> ""]]

\* Lines 172-175: one score per evaluator, in the evaluators' order.
RecordScores(es, evaluation) ==
    [k \in 1..Len(es) |-> evaluation[es[k]]]

\* Lines 169-175: the training record of candidate w, commented fn.
NewLearntFeature(w, name, es) ==
    [Topic |-> "topic", Comment |-> name, Features |-> w,
     Scores |-> RecordScores(es, Evaluation(es, w))]

\* Lines 121-142: the candidate is compiled, parsed back and represented;
\* an error of any of the three is printed and the goroutine returns.
BCompile(w) ==
    /\ fn = "worker" /\ bpc[w] = "compile"
    /\ \/ /\ bpc' = [bpc EXCEPT ![w] = "tree"]
          /\ UNCHANGED bout
       \/ /\ bpc' = [bpc EXCEPT ![w] = "done"]
          /\ bout' = [bout EXCEPT ![w] = "compile failed"]
    /\ UNCHANGED <<bhash, bfn, lf, bevaluators, files, sink, bmu>>
    /\ UNCHANGED notBody

\* Lines 144-152: the tree is built and its documents are evaluated; an
\* error of NewLogicalTree is printed and the goroutine returns.
BTree(w) ==
    /\ fn = "worker" /\ bpc[w] = "tree"
    /\ \/ /\ bpc' = [bpc EXCEPT ![w] = "write"]
          /\ UNCHANGED bout
       \/ /\ bpc' = [bpc EXCEPT ![w] = "done"]
          /\ bout' = [bout EXCEPT ![w] = "tree failed"]
    /\ UNCHANGED <<bhash, bfn, lf, bevaluators, files, sink, bmu>>
    /\ UNCHANGED notBody

\* Lines 154-175: the query is written to the file named fn, outside the
\* lock; an error is printed and the goroutine returns, otherwise the
\* record is built.
BWrite(w) ==
    /\ fn = "worker" /\ bpc[w] = "write"
    /\ \/ /\ files' = files \cup {FileName(bhash[w])}
          /\ bfn' = [bfn EXCEPT ![w] = FileName(bhash[w])]
          /\ lf' = [lf EXCEPT ![w] =
                       NewLearntFeature(w, FileName(bhash[w]), bevaluators)]
          /\ bpc' = [bpc EXCEPT ![w] = "lock"]
          /\ UNCHANGED bout
       \/ /\ bpc' = [bpc EXCEPT ![w] = "done"]
          /\ bout' = [bout EXCEPT ![w] = "write failed"]
          /\ UNCHANGED <<bfn, lf, files>>
    /\ UNCHANGED <<bhash, bevaluators, sink, bmu>>
    /\ UNCHANGED notBody

\* Line 176: mu is taken.
BLock(w) ==
    /\ fn = "worker" /\ bpc[w] = "lock"
    /\ MutexFree(bmu)
    /\ bmu' = w
    /\ bpc' = [bpc EXCEPT ![w] = "output"]
    /\ UNCHANGED <<bhash, bfn, lf, bout, bevaluators, files, sink>>
    /\ UNCHANGED notBody

\* Lines 177-184: Output appends the record to the file, or returns an
\* error that is printed; the deferred Unlock runs.
BOutput(w) ==
    /\ fn = "worker" /\ bpc[w] = "output"
    /\ \/ /\ sink' = Append(sink, lf[w])
          /\ bout' = [bout EXCEPT ![w] = "record"]
       \/ /\ bout' = [bout EXCEPT ![w] = "output failed"]
          /\ UNCHANGED sink
    /\ bmu' = 0
    /\ bpc' = [bpc EXCEPT ![w] = "done"]
    /\ UNCHANGED <<bhash, bfn, lf, bevaluators, files>>
    /\ UNCHANGED notBody

NextBody ==
    \/ \E w \in Bodies : BCompile(w)
    \/ \E w \in Bodies : BTree(w)
    \/ \E w \in Bodies : BWrite(w)
    \/ \E w \in Bodies : BLock(w)
    \/ \E w \in Bodies : BOutput(w)

(***************************************************************************)
(* NewGroovePipeline (fn = "NewGroovePipeline").  A component is the       *)
(* constructor that made it and the value handed to that constructor; a    *)
(* field holds the value it was given, or 0, its zero value.               *)
(***************************************************************************)
\* The component constructors, part_001:43-96.
Constructors ==
    {"Preprocess", "Measurement", "Evaluation", "MeasurementOutput",
     "TrecOutput", "EvaluationOutput"}

ComponentLists ==
    UNION {[1..n -> [constructor : Constructors, value : {1, 2}]] :
              n \in 0..MaxComponents}

\* The dynamic type of what each constructor's closure returns.
TypeOf(constructor) ==
    CASE constructor = "Preprocess" -> "[]preprocess.QueryProcessor"
      [] constructor = "Measurement" -> "[]analysis.Measurement"
      [] constructor = "Evaluation" -> "[]eval.Evaluator"
      [] constructor = "MeasurementOutput" -> "[]output.MeasurementFormatter"
      [] constructor = "TrecOutput" -> "output.TrecResults"
      [] constructor = "EvaluationOutput" -> "EvaluationOutputFormat"

\* The field of GroovePipeline meant for each constructor's value.
FieldOf(constructor) ==
    CASE constructor = "Preprocess" -> "Preprocess"
      [] constructor = "Measurement" -> "Measurements"
      [] constructor = "Evaluation" -> "Evaluations"
      [] constructor = "MeasurementOutput" -> "MeasurementFormatters"
      [] constructor = "TrecOutput" -> "OutputTrec"
      [] constructor = "EvaluationOutput" -> "EvaluationFormatters"

\* Lines 101-104: the pipeline with its two required sources only.
NewPipeline ==
    [Preprocess |-> 0, Transformations |-> 0, Measurements |-> 0,
     MeasurementFormatters |-> 0, Evaluations |-> 0,
     EvaluationFormatters |-> 0, OutputTrec |-> 0]

\* The mutant: a switch with a case for every constructor's type.
SwitchComplete(type) ==
    CASE type = "[]preprocess.QueryProcessor" -> "Preprocess"
      [] type = "[]analysis.Measurement" -> "Measurements"
      [] type = "[]output.MeasurementFormatter" -> "MeasurementFormatters"
      [] type = "preprocess.QueryTransformations" -> "Transformations"
      [] type = "[]eval.Evaluator" -> "Evaluations"
      [] type = "output.TrecResults" -> "OutputTrec"
      [] type = "EvaluationOutputFormat" -> "EvaluationFormatters"
      [] OTHER -> "none"

\* Lines 108-117: the type switch, the field each case assigns.
Switch(type) ==
    CASE type = "[]preprocess.QueryProcessor" -> "Preprocess"
      [] type = "[]analysis.Measurement" -> "Measurements"
      [] type = "[]output.MeasurementFormatter" -> "MeasurementFormatters"
      [] type = "preprocess.QueryTransformations" -> "Transformations"
      [] OTHER -> "none"

\* Lines 106-118: the next component is called and its value installed
\* by the case of its type, if there is one.
NComponent ==
    /\ fn = "NewGroovePipeline" /\ npc = "loop"
    /\ ncomponent < Len(components)
    /\ LET component == components[ncomponent + 1]
           field == Switch(TypeOf(component.constructor))
       IN  gp' = IF field = "none" THEN gp
                 ELSE [gp EXCEPT ![field] = component.value]
    /\ ncomponent' = ncomponent + 1
    /\ UNCHANGED <<npc, components>>
    /\ UNCHANGED notBuilder

\* Line 120: gp is returned.
NReturn ==
    /\ fn = "NewGroovePipeline" /\ npc = "loop"
    /\ ncomponent = Len(components)
    /\ npc' = "returned"
    /\ UNCHANGED <<components, ncomponent, gp>>
    /\ UNCHANGED notBuilder

NextBuilder ==
    \/ NComponent
    \/ NReturn

(***************************************************************************)
(* The measuring part of GroovePipeline.Execute, part_001:136-201          *)
(* (fn = "Measure"): the queries are processed, sorted by size, measured   *)
(* and the rows handed to the formatters.  A loaded query is its name,     *)
(* its position in the load order, and its size, the number of its         *)
(* boolean queries.                                                        *)
(***************************************************************************)
LoadedQueries ==
    UNION {{[k \in 1..n |-> [Name |-> k, size |-> s[k]]] :
               s \in [1..n -> {1, 2}]} : n \in 0..MaxQueries}

\* What measurement i returns for a query: a value of the two.
Measured(m, q) == [measurement |-> m, query |-> q.Name]

\* The mutant: the queries left in the order they were loaded in.
SortedBySizeStable(qs) == {qs}

\* Lines 163-165: sort.Slice by size: a rearrangement in which no query
\* is smaller than a query before it; queries of one size in any order.
SortedBySize(qs) ==
    LET n == Len(qs)
        Perms == {f \in [1..n -> 1..n] :
                     \A a, b \in 1..n : a # b => f[a] # f[b]}
    IN  {t \in {[k \in 1..n |-> qs[f[k]]] : f \in Perms} :
            \A a, b \in 1..n : a < b => t[a].size <= t[b].size}

\* Lines 136-160: topics takes the names in the load order, and
\* measurementQueries the processed queries in the same order.
TProcess ==
    /\ fn = "Measure" /\ tpc = "process"
    /\ topics' = [k \in 1..Len(queries) |-> queries[k].Name]
    /\ measurementQueries' = queries
    /\ tpc' = "sort"
    /\ UNCHANGED <<queries, nMeasurements, data, handed>>
    /\ UNCHANGED notMeasure

\* Lines 163-165: measurementQueries is sorted by size.
TSort ==
    /\ fn = "Measure" /\ tpc = "sort"
    /\ measurementQueries' \in SortedBySize(measurementQueries)
    /\ tpc' = "measure"
    /\ UNCHANGED <<queries, nMeasurements, topics, data, handed>>
    /\ UNCHANGED notMeasure

\* Lines 173-191: row i of data takes measurement i of every query of
\* measurementQueries, in that order; an error of a measurement is sent
\* and Execute returns.
TMeasure ==
    /\ fn = "Measure" /\ tpc = "measure"
    /\ \/ /\ data' = [m \in 1..nMeasurements |->
                         [qi \in 1..Len(measurementQueries) |->
                             Measured(m, measurementQueries[qi])]]
          /\ tpc' = "format"
       \/ /\ nMeasurements > 0 /\ Len(measurementQueries) > 0
          /\ tpc' = "aborted"
          /\ UNCHANGED data
    /\ UNCHANGED <<queries, nMeasurements, topics, measurementQueries,
                   handed>>
    /\ UNCHANGED notMeasure

\* Lines 193-210: the formatters are handed topics, headers and data.
TFormat ==
    /\ fn = "Measure" /\ tpc = "format"
    /\ handed' = [topics |-> topics, data |-> data]
    /\ tpc' = "formatted"
    /\ UNCHANGED <<queries, nMeasurements, topics, measurementQueries,
                   data>>
    /\ UNCHANGED notMeasure

NextMeasure ==
    \/ TProcess
    \/ TSort
    \/ TMeasure
    \/ TFormat

(***************************************************************************)
(* The loops of QueryChain.Generate, part_003:79-203 (fn = "Generate"):    *)
(* the topics, the generations of each topic and the candidates of each    *)
(* generation, with the two slices that carry candidates from one          *)
(* generation to the next.  What the goroutines do with a candidate is in  *)
(* SpecWorkers and under fn = "worker"; none of it touches the slices.     *)
(* A candidate is told from another by the topic and the generation in     *)
(* which it survived first-pass sampling.                                  *)
(***************************************************************************)
\* The topics of qc.Queries: two of them.
GenerateTopics == {1, 2}

\* The generations of a topic: i of line 83.
Generations == 0..(nTimes - 1)

\* How many candidates first-pass sampling leaves of one candidate's
\* variations: none, one or two.
Survivors == {0, 1, 2}

\* An empty slice of candidates.
NoCandidates == [t \in GenerateTopics, g \in Generations |-> 0]

NoSecondPass == [topic |-> 0, generation |-> 0, handed |-> NoCandidates]

\* len of a slice of candidates.
Total(cs) ==
    LET RECURSIVE Sum(_)
        Sum(S) == IF S = {} THEN 0
                  ELSE LET x == CHOOSE x \in S : TRUE
                       IN  cs[x] + Sum(S \ {x})
    IN  Sum(GenerateTopics \X Generations)

\* The mutant: nextCandidates emptied when a generation begins.
KeptPerGeneration(cs) == NoCandidates

\* Line 195: what nextCandidates holds when the next generation begins:
\* it is declared per topic (line 81) and never emptied.
Kept(cs) == cs

\* Lines 79-83 and 202: the next topic starts with its seed as the only
\* candidate and an empty nextCandidates, or no topic is left and
\* Generate returns nil.
KTopic ==
    /\ fn = "Generate" /\ kpc = "topic"
    /\ IF ktopic + 1 \in GenerateTopics
         THEN /\ ktopic' = ktopic + 1
              /\ queryCandidates' = 1
              /\ nextCandidates' = NoCandidates
              /\ kgen' = 0
              /\ kq' = 0
              /\ kpc' = "candidate"
              /\ UNCHANGED kerr
         ELSE /\ kpc' = "returned"
              /\ kerr' = "nil"
              /\ UNCHANGED <<ktopic, queryCandidates, nextCandidates, kgen,
                             kq>>
    /\ UNCHANGED secondPass
    /\ UNCHANGED notGenerations

\* Lines 85-192: the variations of the next candidate of queryCandidates
\* are generated and sampled, and every survivor is appended to
\* nextCandidates when its goroutine is started; an error of Variations or
\* of the sampler is returned.
KCandidate ==
    /\ fn = "Generate" /\ kpc = "candidate"
    /\ kq < queryCandidates
    /\ \/ /\ \E n \in Survivors :
                nextCandidates' =
                    [nextCandidates EXCEPT ![ktopic, kgen] = @ + n]
          /\ kq' = kq + 1
          /\ UNCHANGED <<kpc, kerr>>
       \/ /\ \E e \in {"variations", "first pass"} : kerr' = e
          /\ kpc' = "returned"
          /\ UNCHANGED <<nextCandidates, kq>>
    /\ UNCHANGED <<ktopic, kgen, queryCandidates, secondPass>>
    /\ UNCHANGED notGenerations

\* Lines 194-200: second-pass sampling is handed nextCandidates and what
\* it keeps is the next generation's queryCandidates; its error is
\* returned.
KSecondPass ==
    /\ fn = "Generate" /\ kpc = "candidate"
    /\ kq = queryCandidates
    /\ secondPass' = [topic |-> ktopic, generation |-> kgen,
                      handed |-> nextCandidates]
    /\ \/ /\ \E n \in 0..Min(MaxSample, Total(nextCandidates)) :
                queryCandidates' = n
          /\ nextCandidates' = Kept(nextCandidates)
          /\ kgen' = kgen + 1
          /\ kq' = 0
          /\ kpc' = IF kgen + 1 >= nTimes THEN "topic" ELSE "candidate"
          /\ UNCHANGED kerr
       \/ /\ kerr' = "second pass"
          /\ kpc' = "returned"
          /\ UNCHANGED <<queryCandidates, nextCandidates, kgen, kq>>
    /\ UNCHANGED ktopic
    /\ UNCHANGED notGenerations

NextGenerations ==
    \/ KTopic
    \/ KCandidate
    \/ KSecondPass


(***************************************************************************)
(* Several calls of rewrite's QueryChain.Execute, part_002:29-44, on one   *)
(* configured chain (fn = "Runs"), as the goroutines of                    *)
(* GroovePipeline.Execute make them for their topics, part_001:228-244.    *)
(* The calls interleave freely.  A selector is its fields together with    *)
(* the map its seen field points to: 0 for nil, or the position in heap of *)
(* a map made by Select.                                                   *)
(***************************************************************************)
\* The calls of Execute: two of them, for two topics.
ChainRuns == {1, 2}

\* The unmodified queries and the candidates of the runs, by what their
\* evaluation gives: nothing retrieved, one relevant document of one
\* retrieved, one of two.
RunQueries == {q \in Queries : q.ret <= 2 /\ q.relRet = Min(q.ret, 1)}

\* NewQueryChain with the selector NewOracleQueryChainCandidateSelector
\* returns: its seen field is nil.
NewQueryChain == [sel |-> NewOracleQueryChainCandidateSelector, ref |-> 0]

\* The mutant: Execute on a pointer receiver, the assignment of line 37
\* reaches the configured chain.
ReceiverIsPointer(chain, returned) == returned

\* What the assignment to qc.CandidateSelector (line 37) leaves in the
\* configured chain: Execute has a value receiver (line 29), qc is the
\* call's own copy of the chain.
ReceiverIsCopy(chain, returned) == chain

\* Select, lines 93-177, as a function of the selector it is called on, the
\* evaluation of the unmodified query and the candidate of the generation
\* (NoQuery when there is none): the selector it returns.
Select(s, base, q) ==
    LET entered == [s EXCEPT !.depth = s.depth + 1,
                             !.prevRelRet = s.bestRelRet,
                             !.prevRet = s.bestRet,
                             !.seen = "map"]
        seeded == IF s.minResults = 0
                    THEN [entered EXCEPT
                              !.minResults = Evaluate(base).NumRet,
                              !.bestRelRet = Evaluate(base).NumRelRet,
                              !.bestRet = Evaluate(base).NumRet]
                    ELSE entered
    IN  IF q # NoQuery /\ Accepts(q, seeded.bestRelRet, seeded.bestRet)
          THEN [seeded EXCEPT !.bestRelRet = Evaluate(q).NumRelRet,
                              !.bestRet = Evaluate(q).NumRet]
          ELSE seeded

\* Lines 29-35: the call copies the configured chain and asks its selector
\* whether to stop.
XStart(r) ==
    /\ fn = "Runs" /\ xpc[r] = "idle"
    /\ xsel' = [xsel EXCEPT ![r] = configured.sel]
    /\ xref' = [xref EXCEPT ![r] = configured.ref]
    /\ xfrom' = [xfrom EXCEPT ![r] = configured]
    /\ xstop' = [xstop EXCEPT ![r] = StoppingCriteria(configured.sel)]
    /\ xpc' = [xpc EXCEPT ![r] = "loop"]
    /\ UNCHANGED <<configured, heap>>
    /\ UNCHANGED notRuns

\* Lines 36-41 and 93-177: one Select call of the run.  Select makes a map
\* when seen is nil (lines 98-100); the trees it builds insert into the map
\* seen points to; what it returns is assigned to qc.CandidateSelector; an
\* error ends the run.
XSelect(r) ==
    /\ fn = "Runs" /\ xpc[r] = "loop" /\ ~xstop[r]
    /\ LET made == xsel[r].seen = "nil"
           ref  == IF made THEN Len(heap) + 1 ELSE xref[r]
           maps == IF made
                     THEN Append(heap, [n |-> 0, writers |-> {}])
                     ELSE heap
           entered == [xsel[r] EXCEPT !.depth = @ + 1,
                                      !.prevRelRet = xsel[r].bestRelRet,
                                      !.prevRet = xsel[r].bestRet,
                                      !.seen = "map"]
       IN  \E inserted \in 0..1 :
               /\ maps[ref].n + inserted <= MaxSeen
               /\ heap' = [maps EXCEPT
                              ![ref] = [n |-> @.n + inserted,
                                        writers |-> IF inserted > 0
                                                      THEN @.writers \cup {r}
                                                      ELSE @.writers]]
               /\ xref' = [xref EXCEPT ![r] = ref]
               /\ \E oc_ \in {entered} \cup
                              {Select(xsel[r], base, q) :
                                   base \in RunQueries,
                                   q \in RunQueries \cup {NoQuery}} :
                      /\ xsel' = [xsel EXCEPT ![r] = oc_]
                      /\ configured' =
                             ReceiverIsCopy(configured,
                                            [sel |-> oc_, ref |-> ref])
                      /\ \/ /\ xstop' = [xstop EXCEPT
                                             ![r] = StoppingCriteria(oc_)]
                            /\ UNCHANGED xpc
                         \/ /\ oc_ = entered
                            /\ xpc' = [xpc EXCEPT ![r] = "failed"]
                            /\ UNCHANGED xstop
    /\ UNCHANGED xfrom
    /\ UNCHANGED notRuns

\* Line 43.
XReturn(r) ==
    /\ fn = "Runs" /\ xpc[r] = "loop" /\ xstop[r]
    /\ xpc' = [xpc EXCEPT ![r] = "returned"]
    /\ UNCHANGED <<configured, heap, xsel, xref, xstop, xfrom>>
    /\ UNCHANGED notRuns

NextRuns ==
    \E r \in ChainRuns :
        \/ XStart(r)
        \/ XSelect(r)
        \/ XReturn(r)


(***************************************************************************)
(* avgICTF.Execute, src/analysis/preqpp/ictf.go:21-45 (fn = "avgICTF").    *)
(* The query is its number of terms and of fields; the Statistics Source   *)
(* answers every call with a number or with one of two errors.  sumICTF is *)
(* followed by the number of its addends, the value returned by whether it *)
(* is the literal 0.0 or the mean computed at line 44.                     *)
(***************************************************************************)
\* What a call of the Statistics Source returns as its error.
StatisticsErrors == {"nil", "unreachable", "no such field"}

NoResult == [value |-> "none", addends |-> 0, err |-> "none"]

\* The mutant: the error of a call is not looked at.
AbortsNever(e) == FALSE

\* The tests of lines 33 and 38.
Aborts(e) == e # "nil"

\* A Statistics Source call is made and answered with e.
Call(op, e) == icalls' = Append(icalls, [op |-> op, err |-> e])

\* Lines 22-29: a query without terms returns 0.0 and nil.
IStart ==
    /\ fn = "avgICTF" /\ ipc = "start"
    /\ IF iterms = 0
         THEN /\ ipc' = "returned"
              /\ iret' = [value |-> "0.0", addends |-> 0, err |-> "nil"]
         ELSE /\ ipc' = "field"
              /\ UNCHANGED iret
    /\ UNCHANGED <<iterms, ifields, ifield, iterm, iadded, icalls>>
    /\ UNCHANGED notICTF

\* Lines 31-35: the vocabulary size of the next field is asked; its error
\* is returned with 0.0.
IVocabularySize ==
    /\ fn = "avgICTF" /\ ipc = "field"
    /\ ifield < ifields
    /\ \E e \in StatisticsErrors :
         /\ Call("VocabularySize", e)
         /\ IF Aborts(e)
              THEN /\ ipc' = "returned"
                   /\ iret' = [value |-> "0.0", addends |-> 0, err |-> e]
                   /\ UNCHANGED <<ifield, iterm>>
              ELSE /\ ipc' = "term"
                   /\ ifield' = ifield + 1
                   /\ iterm' = 0
                   /\ UNCHANGED iret
    /\ UNCHANGED <<iterms, ifields, iadded>>
    /\ UNCHANGED notICTF

\* Lines 36-42: the total frequency of the next term in the field is
\* asked and one addend joins sumICTF; its error is returned with 0.0;
\* after the last term the next field follows.
ITotalTermFrequency ==
    /\ fn = "avgICTF" /\ ipc = "term"
    /\ IF iterm < iterms
         THEN \E e \in StatisticsErrors :
                /\ Call("TotalTermFrequency", e)
                /\ IF Aborts(e)
                     THEN /\ ipc' = "returned"
                          /\ iret' = [value |-> "0.0", addends |-> 0,
                                      err |-> e]
                          /\ UNCHANGED <<iterm, iadded>>
                     ELSE /\ iterm' = iterm + 1
                          /\ iadded' = iadded + 1
                          /\ UNCHANGED <<ipc, iret>>
         ELSE /\ ipc' = "field"
              /\ UNCHANGED <<iterm, iadded, icalls, iret>>
    /\ UNCHANGED <<iterms, ifields, ifield>>
    /\ UNCHANGED notICTF

\* Line 44: every field done, the mean of the addends is returned.
IReturn ==
    /\ fn = "avgICTF" /\ ipc = "field"
    /\ ifield = ifields
    /\ ipc' = "returned"
    /\ iret' = [value |-> "mean", addends |-> iadded, err |-> "nil"]
    /\ UNCHANGED <<iterms, ifields, ifield, iterm, iadded, icalls>>
    /\ UNCHANGED notICTF

NextICTF ==
    \/ IStart
    \/ IVocabularySize
    \/ ITotalTermFrequency
    \/ IReturn

(***************************************************************************)
(* The library functions together.                                         *)
(***************************************************************************)
InitLibrary ==
    /\ fn \in {"Formulate", "Evaluate", "Execute", "getRanking",
               "worker", "NewGroovePipeline", "Measure", "Generate", "Runs",
               "avgICTF"}
    /\ IF fn = "avgICTF"
         THEN /\ ipc = "start"
              /\ iterms \in 0..MaxTerms
              /\ ifields \in 0..MaxFields
              /\ ifield = 0
              /\ iterm = 0
              /\ iadded = 0
              /\ icalls = <<>>
              /\ iret = NoResult
         ELSE ICTFAtRest
    /\ IF fn = "Runs"
         THEN /\ configured = NewQueryChain
              /\ heap = <<>>
              /\ xpc = [r \in ChainRuns |-> "idle"]
              /\ xsel = [r \in ChainRuns |-> NewOracleQueryChainCandidateSelector]
              /\ xref = [r \in ChainRuns |-> 0]
              /\ xstop = [r \in ChainRuns |-> FALSE]
              /\ xfrom = [r \in ChainRuns |-> NewQueryChain]
         ELSE RunsAtRest
    /\ IF fn = "Generate"
         THEN /\ kpc = "topic"
              /\ ktopic = 0
              /\ kgen = 0
              /\ kq = 0
              /\ queryCandidates = 0
              /\ nextCandidates = NoCandidates
              /\ secondPass = NoSecondPass
              /\ kerr = "none"
         ELSE GenerationsAtRest
    /\ IF fn = "Measure"
         THEN /\ tpc = "process"
              /\ queries \in LoadedQueries
              /\ nMeasurements \in 0..MaxMeasurements
              /\ topics = <<>>
              /\ measurementQueries = <<>>
              /\ data = <<>>
              /\ handed = <<>>
         ELSE MeasureAtRest
    /\ IF fn = "NewGroovePipeline"
         THEN /\ npc = "loop"
              /\ components \in ComponentLists
              /\ ncomponent = 0
              /\ gp = NewPipeline
         ELSE BuilderAtRest
    /\ IF fn = "worker"
         THEN /\ bpc = [w \in Bodies |-> "compile"]
              /\ bhash \in [Bodies -> QueryHashes]
              /\ bfn = [w \in Bodies |-> <<>>]
              /\ lf = [w \in Bodies |-> NoRecord]
              /\ bout = [w \in Bodies |-> "none"]
              /\ bevaluators \in EvaluatorLists
              /\ files = {}
              /\ sink = <<>>
              /\ bmu = 0
         ELSE BodyAtRest
    /\ IF fn = "getRanking"
         THEN /\ rpc = "start"
              /\ candidates \in 0..MaxRanked
              /\ lines \in ScoreFiles
              /\ ranks = <<>>
              /\ ri = 0
              /\ rret = [query |-> 0, err |-> "none"]
         ELSE RankingAtRest
    /\ IF fn = "Execute"
         THEN /\ lpc = "start"
              /\ lcq = EmptyCandidate
              /\ lsel \in [n : {0}, stops : BOOLEAN]
              /\ lstop = FALSE
              /\ ld = 0
              /\ lret = NoReturn
              /\ selected = NoSelect
              /\ selects = 0
         ELSE ExecuteAtRest
    /\ IF fn = "Evaluate"
         THEN /\ epc = "loop"
              /\ evaluators \in EvaluatorLists
              /\ results \in 0..MaxResults
              /\ judged \in BOOLEAN
              /\ scored = 0
              /\ scores = <<>>
              /\ calls = <<>>
         ELSE EvaluateAtRest
    /\ IF fn = "Formulate"
         THEN /\ fpc = "collect"
              /\ qrels \in FormulateInputs
              /\ docs = 0
              /\ fetched = 0
              /\ derived = "none"
              /\ post = 0
              /\ fret = [queries |-> "none", err |-> "none"]
         ELSE FormulateAtRest
    /\ ChainAtRest
    /\ WorkersAtRest

NextLibrary ==
    \/ NextFormulate
    \/ NextEvaluate
    \/ NextExecute
    \/ NextRanking
    \/ NextBody
    \/ NextBuilder
    \/ NextMeasure
    \/ NextGenerations
    \/ NextRuns
    \/ NextICTF

(***************************************************************************)
(* The specifications.  Each leaves the others' variables at rest.         *)
(***************************************************************************)
SpecChain == InitChain /\ [][NextChain]_vars

SpecWorkers == InitWorkers /\ [][NextWorkers]_vars

SpecLibrary == InitLibrary /\ [][NextLibrary]_vars

(***************************************************************************)
(* Properties of the oracle chain (SpecChain).                             *)
(***************************************************************************)
InSelect == {"baseline", "transform"}

\* Execute is between two Select calls, or has returned normally.
BetweenCalls == cpc \in {"loop", "returned"} /\ selectCalls >= 1

\* C2: a run of QueryChain.Execute with the oracle selector calls Select at
\* most 5 times, whatever the candidates are.
C2_AtMostFiveSelects == selectCalls <= MaxDepth

\* A run that was stopped by the depth bound although the fifth and the
\* fourth generation both had an accepted candidate.
C2_Witness ==
    /\ cpc = "returned"
    /\ err = "nil"
    /\ selectCalls = MaxDepth
    /\ sel.depth = MaxDepth
    /\ improved
    /\ prevImproved

C4_StopsOnlyIfBothUnchanged ==
    (cpc \in {"start", "loop", "returned"} /\ sel.depth < MaxDepth
        /\ StoppingCriteria(sel)) =>
            (sel.bestRelRet = sel.prevRelRet /\ sel.bestRet = sel.prevRet)

\* C5: a candidate is accepted (Append called, running best set to its
\* values) if and only if NumRelRet > 0, NumRelRet >= bestRelRet and
\* NumRet <= bestRet for the selector's running best at that moment.
C5_AcceptanceRule ==
    (cpc = "transform" /\ cand.c # NoQuery) =>
        /\ cand.appended <=>
              /\ cand.c.relRet > 0
              /\ cand.c.relRet >= cand.bRelRet
              /\ cand.c.ret <= cand.bRet
        /\ cand.appended =>
              /\ oc.bestRelRet = cand.c.relRet
              /\ oc.bestRet = cand.c.ret
              /\ bestRelRet = cand.c.relRet
              /\ bestRet = cand.c.ret
              /\ query.PipelineQuery = cand.c
        /\ ~cand.appended =>
              /\ oc.bestRelRet = cand.bRelRet
              /\ oc.bestRet = cand.bRet

\* A candidate rejected against the best updated earlier in the same round
\* that would have been accepted against the best the round started with.
C5_Witness ==
    /\ cpc = "transform"
    /\ oc.depth >= 2
    /\ cand.c # NoQuery
    /\ ~cand.appended
    /\ cand.bRet < sel.bestRet
    /\ cand.c.relRet > 0
    /\ cand.c.relRet >= sel.bestRelRet
    /\ cand.c.ret <= sel.bestRet

\* C6: from one Select call to the next bestRelRet never decreases and
\* bestRet never increases.
C6_BestNeverRegresses ==
    (selectCalls >= 2 /\ cpc \in {"loop", "returned", "failed"}) =>
        /\ sel.bestRelRet >= entry.bestRelRet
        /\ sel.bestRet <= entry.bestRet

\* A later call that improved both values.
C6_Witness ==
    /\ selectCalls >= 2
    /\ cpc = "loop"
    /\ sel.bestRelRet > entry.bestRelRet
    /\ sel.bestRet < entry.bestRet

\* What a holder of the receiver can observe of it: its fields and the
\* contents of the map its seen field points to.
ReceiverView ==
    [fields |-> sel, cache |-> IF sel.seen = "nil" THEN 0 ELSE seenMap]

\* C7 as stated: while Select runs, nothing of the receiver changes, its
\* seen cache included.
C7_ReceiverUnchanged ==
    [][cpc' \in InSelect => ReceiverView' = ReceiverView]_vars

\* C7 amended: while Select runs, the receiver's fields (depth, minResults,
\* bestRelRet, prevRelRet, bestRet, prevRet and the seen reference) do not
\* change.
C7_ReceiverFieldsUnchanged ==
    [][cpc' \in InSelect => sel' = sel]_vars

\* Select has updated its own copy while the receiver still holds the old
\* depth and best values.
C7_Witness ==
    /\ cpc = "transform"
    /\ oc.depth = sel.depth + 1
    /\ sel.depth >= 1
    /\ oc.bestRet # sel.bestRet
    /\ oc.bestRelRet # sel.bestRelRet

\* C11: in Select a retrieval error on the logical tree of one candidate
\* skips that candidate alone: the step that examines a candidate always
\* leaves Select among the remaining candidates of the generation, and the
\* run is not aborted.
C11_TreeFailureSkipsCandidate ==
    [][(cpc = "transform" /\ left > 0)
          => (cpc' = "transform" /\ left' = left - 1 /\ err' = "nil")]_vars

\* C12: in Select an error of one transformation's Apply skips that
\* transformation alone: Select never returns the error, so no run ends
\* failed on a transformation error.
C12_ApplyFailureSkipsTransformation ==
    ~(cpc = "failed" /\ err = "transformation")

(***************************************************************************)
(* Properties of the worker pools (SpecWorkers).                           *)
(***************************************************************************)
Active == prog \in {"pipeline", "generate"}

\* C1: in GroovePipeline.Execute and in QueryChain.Generate the workers
\* that were dispatched and have not finished never outnumber the
\* semaphore's capacity (NumCPU in Execute, min(NumCPU, 16) in Generate),
\* and while that many are running the dispatcher starts no further one:
\* a step that starts a worker is taken with fewer than capacity running.
C1_PoolBounded ==
    [][Active =>
         /\ Cardinality(Running) <= concurrency(prog)
         /\ Cardinality(Running') <= concurrency(prog)
         /\ (di' = di + 1 => Cardinality(Running) < concurrency(prog))]_vars

\* C1 happens: the pool is full and a unit still waits to be dispatched.
C1_Witness ==
    /\ Active
    /\ mpc = "dispatch"
    /\ di < units
    /\ Cardinality(Running) = concurrency(prog)
    /\ sem = concurrency(prog)

MapWriters == {w \in Units : wk[w].pc = "writing"}

\* C9: besides the result cache no shared variable is written by two
\* workers without mutual exclusion: at no moment are two workers inside
\* a write of the measurements map, and no write of it is lost.
C9_NoUnguardedSharedWrite ==
    Active =>
        /\ Cardinality(MapWriters) <= 1
        /\ raced = {}
        /\ \A w \in Units : measurements[w] # "lost"
        /\ mpc # "crashed"

\* Workers inside CandidateSelector.Output.
InOutput == {w \in Units : wk[w].pc = "output"}

\* C10: in QueryChain.Generate at most one worker at a time is inside
\* Output, and it is the holder of mu; a worker enters Output only when no
\* other worker is inside.
C10_OutputSerialized ==
    [][prog = "generate" =>
         /\ Cardinality(InOutput) <= 1
         /\ InOutput \subseteq {mu}
         /\ \A w \in Units :
               (w \in InOutput' /\ w \notin InOutput) => InOutput = {}]_vars

\* C10 happens: one worker is inside Output while another, its query
\* file written, waits for the lock.
C10_Witness ==
    /\ prog = "generate"
    /\ \E v, w \in Units :
          /\ wk[v].pc = "output"
          /\ mu = v
          /\ wk[w].pc = "lock"

\* How many results of one type a sender has sent.
Count(seq, type) == Cardinality({k \in 1..Len(seq) : seq[k] = type})

\* The concurrent phase of GroovePipeline.Execute is over: the barrier was
\* passed, or the process was ended.
ConcurrentPhaseOver ==
    \/ mpc = "crashed"
    \/ mpc \in {"finish", "done", "aborted"} /\ fill = concurrency(prog)

\* C13: in the concurrent phase of GroovePipeline.Execute a topic whose
\* chain or execution fails gets exactly one Error result with its topic
\* and no Transformation result, and every other topic is still processed:
\* once the phase is over every loaded topic has exactly one Transformation
\* result, or exactly one Error result, never both.
C13_TopicFailureIsolated ==
    prog = "pipeline" =>
        \A w \in 1..units :
            /\ wk[w].out = "error" =>
                  /\ Count(c[w], "Error") = 1
                  /\ Count(c[w], "Transformation") = 0
            /\ Count(c[w], "Error") <= 1
            /\ Count(c[w], "Transformation") <= 1
            /\ ConcurrentPhaseOver =>
                  Count(c[w], "Error") + Count(c[w], "Transformation") = 1

\* Generate is outside a dispatch loop: the candidates of the latest loop,
\* if any, have all passed the barrier.
LoopOver == prog = "generate" /\ mpc \notin {"dispatch", "barrier"}

\* What Generate can return: nil, or the error of opening the generation
\* file, of Variations or first-pass sampling, or of second-pass sampling.
GenerateReturns == {"nil", "open", "variations", "sample"}

\* C14 as stated: a candidate whose compilation, tree evaluation or
\* artifact write fails never reaches Output and so produces no record,
\* Generate returns no error on its account, and once the dispatch loop is
\* over every dispatched candidate was either skipped for such a failure or
\* has its record written.
C14_FailedCandidateSkippedSiblingsRecorded ==
    prog = "generate" =>
        /\ \A w \in Units :
              wk[w].out = "skipped" => wk[w].pc \in {"release", "done"}
        /\ mpc = "returned" => gerr \in GenerateReturns
        /\ LoopOver =>
              \A w \in 1..units :
                  wk[w].pc = "done" /\ wk[w].out \in {"record", "skipped"}

\* C14 amended: as above, but a candidate that was not skipped has Output
\* called for its record, and the record is written unless Output itself
\* returns an error; that error is printed like the others and does not
\* make Generate return an error either.
C14_FailedCandidateSkippedSiblingsOutput ==
    prog = "generate" =>
        /\ \A w \in Units :
              /\ wk[w].out = "skipped" => wk[w].pc \in {"release", "done"}
              /\ wk[w].out \in {"record", "failed"}
                    => wk[w].pc \in {"release", "done"}
              /\ wk[w].pc \in {"release", "done"} => wk[w].out # "none"
        /\ mpc = "returned" => gerr \in GenerateReturns
        /\ LoopOver =>
              \A w \in 1..units :
                  /\ wk[w].pc = "done"
                  /\ wk[w].out \in {"record", "skipped", "failed"}

\* C14 happens: a dispatch loop is over in which a candidate was skipped,
\* a sibling has its record and Generate goes on with the next loop.
C14_Witness ==
    /\ LoopOver
    /\ mpc \in {"variations", "sample"}
    /\ \E v, w \in 1..units :
          /\ wk[v].out = "skipped"
          /\ wk[w].out = "record"

\* C17: when Generate cannot open its generation file it returns that
\* error at once: no variations were generated, no worker was dispatched,
\* no slot taken, no cache entry made and no Statistics Source call issued.
C17_OpenFailureReturnsAtOnce ==
    (prog = "generate" /\ gerr = "open") =>
        /\ mpc = "returned"
        /\ units = 0 /\ di = 0 /\ sem = 0 /\ fill = 0
        /\ i = 0 /\ qLeft = 0
        /\ \A w \in Units : wk[w] = Idle
        /\ \A h \in Hashes : ssCalls[h] = 0 /\ cache[0][h] = "absent"

\* C17 happens: Generate has returned the error of OpenFile.
C17_Witness ==
    /\ prog = "generate"
    /\ mpc = "returned"
    /\ gerr = "open"

(***************************************************************************)
(* Properties of the library functions (SpecLibrary).                      *)
(***************************************************************************)
\* C15: Formulate rejects the request with the not-enough-relevant-studies
\* error, before fetching any document, when 49 or fewer documents are
\* judged relevant, and goes past the guard when 50 or more are.
C15_RejectsBelowFifty ==
    (fn = "Formulate" /\ fpc \notin {"collect", "guard", "panicked"}) =>
        /\ docs <= 49 =>
              /\ fpc = "returned"
              /\ fret = [queries |-> "nil", err |-> "not enough"]
              /\ fetched = 0
        /\ docs >= 50 => fret.err # "not enough"

\* C16: Evaluate never short-circuits on an empty result list.  Whatever
\* the evaluators, the result list and the topic, when it returns each
\* evaluator of the list has been asked for its Score exactly once, in
\* order, with the topic's judgements and with the result list (an empty
\* list when nothing was retrieved), and the map holds exactly one entry
\* per distinct name: the score of the last evaluator of that name.
C16_EveryEvaluatorScoredOnce ==
    (fn = "Evaluate" /\ epc = "returned") =>
        /\ Len(calls) = Len(evaluators)
        /\ \A k \in 1..Len(evaluators) :
              calls[k] = [evaluator |-> evaluators[k], retrieved |-> results,
                          qrels |-> TopicQrels(judged)]
        /\ DOMAIN scores = {evaluators[k] : k \in 1..Len(evaluators)}
        /\ \A k \in 1..Len(evaluators) :
              (\A l \in (k + 1)..Len(evaluators) : evaluators[l] # evaluators[k])
                  => scores[evaluators[k]] = calls[k]

\* C16 happens: Evaluate has returned for an empty result list, a topic
\* without judgements and a list in which two evaluators share a name.
C16_Witness ==
    /\ fn = "Evaluate"
    /\ epc = "returned"
    /\ results = 0
    /\ ~judged
    /\ Len(evaluators) = 3
    /\ evaluators[1] = evaluators[3]
    /\ evaluators[2] # evaluators[1]
    /\ Len(calls) = 3

\* C18: a cache-miss signal from Select never makes learning's Execute
\* return an error: Execute never returns that signal, and a Select call
\* that returned it leaves Execute in its loop, nothing returned, with the
\* candidate and the selector the call returned and that selector's
\* stopping answer.
C18_CacheMissTolerated ==
    [][fn = "Execute" =>
         /\ lret'.err # "ErrCacheMiss"
         /\ (selects' # selects /\ selected'.err = "ErrCacheMiss") =>
               /\ lpc' = "loop"
               /\ lret' = NoReturn
               /\ lcq' = selected'.cq
               /\ lsel' = selected'.sel
               /\ lstop' = selected'.sel.stops]_vars

\* C18 happens: after a Select call that signalled a cache miss and
\* returned a refined candidate, Execute is in a further Select call.
C18_Witness ==
    /\ fn = "Execute"
    /\ lpc = "select"
    /\ selected.err = "ErrCacheMiss"
    /\ selected.cq.chain >= 1
    /\ selects >= 1
    /\ ld = selects + 1

\* C19: Execute returns the final candidate with a nil error, or, when
\* Variations or Select fails (other than with a cache miss), the error
\* with the empty candidate, never a refined candidate with an error; and
\* once it has returned no further Select call is made.
C19_CandidateOrError ==
    [][fn = "Execute" =>
         /\ lpc' = "returned" =>
               \/ /\ lret'.err = "nil"
                  /\ lret'.cq = lcq'
                  /\ lstop'
               \/ /\ lret'.err \in {"variations", "error"}
                  /\ lret'.cq = EmptyCandidate
         /\ lpc = "returned" => (selects' = selects /\ lret' = lret)
         /\ lret'.selects = IF lpc' = "returned" THEN selects' ELSE 0]_vars

\* C19 happens: Execute has returned an error and the empty candidate
\* after an earlier Select call had refined the candidate.
C19_Witness ==
    /\ fn = "Execute"
    /\ lpc = "returned"
    /\ lret.err = "error"
    /\ lret.cq = EmptyCandidate
    /\ lcq.chain >= 2
    /\ selects >= 2

\* The score file has one line per candidate of a non-empty list, and
\* every line is a decimal number.
OneNumberPerCandidate ==
    /\ candidates >= 1
    /\ Len(lines) = candidates
    /\ \A k \in 1..Len(lines) : lines[k].kind = "number"

\* C20: for a non-empty candidate list and a score file with one numeric
\* line per candidate, getRanking pairs line k with candidate k and,
\* unless the file could not be read, returns without an error a candidate
\* whose line holds the maximum of all lines, whatever the sign of the
\* scores.
C20_ReturnsMaximumByPosition ==
    (fn = "getRanking" /\ OneNumberPerCandidate) =>
        /\ rpc # "panicked"
        /\ (rpc = "scan" /\ ri = Len(lines)) =>
              \A k \in 1..candidates :
                  ranks[k] = [nan |-> FALSE, rank |-> lines[k].v, query |-> k]
        /\ (rpc = "returned" /\ rret.err # "read") =>
              /\ rret.err = "nil"
              /\ rret.query \in 1..candidates
              /\ \A k \in 1..candidates : lines[rret.query].v >= lines[k].v

\* C20 happens: three candidates, every score negative, the greatest on
\* the last line, and the last candidate returned.
C20_Witness ==
    /\ fn = "getRanking"
    /\ OneNumberPerCandidate
    /\ candidates = 3
    /\ \A k \in 1..3 : lines[k].v < 0
    /\ lines[3].v > lines[1].v
    /\ lines[3].v > lines[2].v
    /\ rpc = "returned"
    /\ rret = [query |-> 3, err |-> "nil"]

\* Some line of the score file is no number at all.
MalformedLine == \E k \in 1..Len(lines) : lines[k].kind = "text"

\* C21: with a malformed line anywhere in the score file getRanking
\* does not panic and returns an error together with the empty candidate.
C21_MalformedLineIsAnError ==
    (fn = "getRanking" /\ MalformedLine) =>
        /\ rpc # "panicked"
        /\ rpc = "returned" => (rret.err # "nil" /\ rret.query = 0)

(***************************************************************************)
(* Properties of Generate's goroutine (SpecLibrary, fn = "worker").        *)
(***************************************************************************)
\* The records of candidate w in the sink.
RecordsOf(w) == {k \in 1..Len(sink) : sink[k].Features = w}

Evaluated(w) ==
    \/ bpc[w] \in {"write", "lock", "output"}
    \/ bout[w] \in {"write failed", "output failed", "record"}

\* Record k holds the features of candidate w and one score per
\* configured evaluator, in the evaluators' order.
WellFormed(k, w) ==
    /\ sink[k].Features = w
    /\ Len(sink[k].Scores) = Len(bevaluators)
    /\ \A j \in 1..Len(bevaluators) :
          sink[k].Scores[j] =
              Score(bevaluators[j], Handed(w), TopicQrels(TRUE))

\* C23 as stated: under every interleaving no candidate has more than one
\* record, every record is well formed, and a candidate whose evaluation
\* succeeded has exactly one record once its goroutine has ended.
C23_EvaluatedCandidateRecordedOnce ==
    fn = "worker" =>
        \A w \in Bodies :
            /\ Cardinality(RecordsOf(w)) <= 1
            /\ \A k \in RecordsOf(w) : WellFormed(k, w)
            /\ (bpc[w] = "done" /\ Evaluated(w)) =>
                  Cardinality(RecordsOf(w)) = 1

\* C23 amended: under every interleaving no candidate has more than one
\* record, every record is well formed, and a candidate whose goroutine
\* has ended has exactly one record when its evaluation, the write of its
\* file and Output all succeeded, and none otherwise.
C23_OutputCandidateRecordedOnce ==
    fn = "worker" =>
        \A w \in Bodies :
            /\ Cardinality(RecordsOf(w)) <= 1
            /\ \A k \in RecordsOf(w) : WellFormed(k, w)
            /\ bout[w] = "record" => (Evaluated(w) /\ bfn[w] \in files)
            /\ bpc[w] = "done" =>
                  Cardinality(RecordsOf(w)) =
                      IF bout[w] = "record" THEN 1 ELSE 0
            /\ bpc[w] # "done" => RecordsOf(w) = {}

\* C23 happens: with two evaluators of different names, both goroutines
\* have ended after successful evaluations; the second candidate's record
\* is in the sink with its two scores, the first one's Output failed.
C23_Witness ==
    /\ fn = "worker"
    /\ bevaluators = <<"b", "a">>
    /\ \A w \in Bodies : bpc[w] = "done" /\ Evaluated(w)
    /\ bout[1] = "output failed"
    /\ bout[2] = "record"
    /\ Len(sink) = 1
    /\ sink[1].Scores[1].evaluator = "b"
    /\ sink[1].Scores[2].evaluator = "a"

(***************************************************************************)
(* Properties of NewGroovePipeline (SpecLibrary).                          *)
(***************************************************************************)
\* The value the last component made by a constructor was given; 0 when
\* no component was made by it.
Supplied(constructor) ==
    LET made == {k \in 1..Len(components) :
                    components[k].constructor = constructor}
    IN  IF made = {} THEN 0
        ELSE components[CHOOSE k \in made : \A j \in made : j <= k].value

\* C24: the pipeline that NewGroovePipeline returns holds, in the field of
\* each of the six constructors, the value supplied through it.
C24_EveryComponentInstalled ==
    (fn = "NewGroovePipeline" /\ npc = "returned") =>
        \A constructor \in Constructors :
            Supplied(constructor) # 0 =>
                gp[FieldOf(constructor)] = Supplied(constructor)

\* C25: Formulate never panics, and whenever one of its steps failed
\* (here: derive returned an error) it returns an error and no queries.
C25_FailedStepReturnsError ==
    fn = "Formulate" =>
        /\ fpc # "panicked"
        /\ (fpc = "returned" /\ derived = "error") =>
              (fret.err # "nil" /\ fret.queries = "nil")

(***************************************************************************)
(* Properties of the measuring part of GroovePipeline.Execute.             *)
(***************************************************************************)
\* C26: in the rows handed to the measurement formatters, the value at
\* position k of row i is measurement i of the query named topics[k].
C26_RowsAlignedToTopics ==
    (fn = "Measure" /\ tpc = "formatted") =>
        \A m \in 1..Len(handed.data) :
            \A k \in 1..Len(handed.topics) :
                handed.data[m][k] =
                    [measurement |-> m, query |-> handed.topics[k]]

\* The rewrite loop, part_002:29-44, under SpecChain: StoppingCriteria is
\* consulted before the first Select and after every Select, and Select is
\* entered only on a selector that is not stopped.
RewriteLoopConsultsSelector ==
    [][/\ cpc = "start" => stop' = StoppingCriteria(sel)
       /\ selectCalls' # selectCalls => (~stop /\ ~StoppingCriteria(sel))
       /\ cpc' = "loop" => stop' = StoppingCriteria(sel')]_vars

\* C27: in learning's Execute the selector's StoppingCriteria is consulted
\* before the first Select and after every Select that did not fail, Select
\* is never called on a stopped selector, and with a selector that is
\* stopped from the start Execute returns the seed with a nil error without
\* generating candidates or calling Select.
C27_StoppingConsultedAroundSelect ==
    [][fn = "Execute" =>
         /\ lpc = "start" => lstop' = lsel.stops
         /\ selects' # selects => (~lstop /\ ~lsel.stops)
         /\ (selects' # selects /\ lpc' = "loop") => lstop' = lsel'.stops
         /\ (lpc = "loop" /\ lsel.n = 0 /\ lsel.stops) =>
               /\ lpc' = "returned"
               /\ lret' = [cq |-> SeedCandidate, err |-> "nil", selects |-> 0]
               /\ ld' = 0]_vars

\* C27 happens: the selector was stopped from the start and Execute has
\* returned the seed, no Select call made.
C27_Witness ==
    /\ fn = "Execute"
    /\ lpc = "returned"
    /\ lsel = [n |-> 0, stops |-> TRUE]
    /\ lret = [cq |-> SeedCandidate, err |-> "nil", selects |-> 0]

\* The barrier of the latest dispatch loop was passed.
BarrierPassed ==
    \/ prog = "pipeline" /\ mpc \in {"finish", "done"}
    \/ prog = "pipeline" /\ mpc = "aborted" /\ fill = concurrency(prog)
    \/ prog = "generate" /\ mpc \in {"variations", "sample", "topic", "returned"}

\* C28: once a barrier is passed every worker that was dispatched has
\* ended; the Evaluation result is sent after all topic workers have ended
\* and the map it is made from holds the scores of every topic that was
\* executed successfully; Generate does not return while a worker runs.
C28_BarrierWaitsForEveryWorker ==
    Active =>
        /\ BarrierPassed => Running = {}
        /\ (prog = "pipeline" /\ Count(c[0], "Evaluation") >= 1) =>
              \A w \in 1..units :
                  /\ wk[w].pc = "done"
                  /\ (cfg.evaluations /\ wk[w].out = "sent") =>
                        measurements[w] = "stored"
        /\ (prog = "generate" /\ mpc = "returned") => Running = {}

(***************************************************************************)
(* Properties of Generate's loops (SpecLibrary, fn = "Generate").          *)
(***************************************************************************)
\* C29: what second-pass sampling is handed at the end of a generation
\* holds candidates of that generation of that topic only.
C29_SecondPassSeesOneGeneration ==
    fn = "Generate" =>
        \A t \in GenerateTopics, g \in Generations :
            secondPass.handed[t, g] > 0 =>
                (t = secondPass.topic /\ g = secondPass.generation)


\* C30: absent errors a chain run from the fresh oracle selector makes at
\* least 2 and at most 5 Select calls: the fresh selector is not stopped
\* (bestRet -1, prevRet 0), and the first call, which seeds the baseline,
\* leaves bestRet >= 0 and prevRet -1, so it does not stop the run either.
C30_TwoToFiveSelects ==
    /\ cpc = "start" =>
           (~StoppingCriteria(sel) /\ sel.bestRet = -1 /\ sel.prevRet = 0)
    /\ (cpc = "loop" /\ selectCalls = 1) =>
           (~stop /\ sel.bestRet >= 0 /\ sel.prevRet = -1)
    /\ (cpc = "returned" /\ err = "nil") =>
           (selectCalls >= 2 /\ selectCalls <= MaxDepth)

\* A run without errors that returned after exactly two Select calls, the
\* seeding call having accepted a candidate.
C30_Witness ==
    /\ cpc = "returned"
    /\ err = "nil"
    /\ selectCalls = 2
    /\ sel.depth = 2
    /\ sel.prevRet >= 0
    /\ prevImproved


\* The runs of Execute that have begun.
Begun == {r \in ChainRuns : xpc[r] # "idle"}

\* C31: QueryChain.Execute does not modify the configured selector: every
\* call, also when calls for different topics interleave, begins with the
\* selector NewOracleQueryChainCandidateSelector returned (depth 0, best
\* values -1, no cache), and no two calls share a cache: their selectors
\* point to different maps and a map gains entries from one call only.
C31_RunsShareNoSelectorState ==
    fn = "Runs" =>
        /\ configured = NewQueryChain
        /\ \A r \in Begun : xfrom[r] = NewQueryChain
        /\ \A r1, r2 \in Begun :
               (r1 # r2 /\ xref[r1] # 0) => xref[r1] # xref[r2]
        /\ \A k \in 1..Len(heap) : Cardinality(heap[k].writers) <= 1

\* Two calls are under way at once, one began after the other had made
\* Select calls, they are at different depths with different best values,
\* and each has filled a cache of its own.
C31_Witness ==
    /\ fn = "Runs"
    /\ xpc[1] = "loop" /\ xpc[2] = "loop"
    /\ xsel[1].depth = 3 /\ xsel[2].depth = 1
    /\ xsel[1].bestRet # xsel[2].bestRet
    /\ xref[1] # 0 /\ xref[2] # 0
    /\ heap[xref[1]].writers = {1}
    /\ heap[xref[2]].writers = {2}


\* The list of candidates is not empty and every line of the score file
\* is a decimal number.
NumericLines ==
    /\ candidates >= 1
    /\ \A k \in 1..Len(lines) : lines[k].kind = "number"

\* C32: for a non-empty candidate list and a score file whose lines are
\* all numbers, getRanking does not panic and, unless the file could not
\* be read, returns without an error a member of the list, also when the
\* file has fewer or more lines than there are candidates.
C32_ReturnsMemberWhateverLineCount ==
    (fn = "getRanking" /\ NumericLines) =>
        /\ rpc # "panicked"
        /\ (rpc = "returned" /\ rret.err # "read") =>
              /\ rret.err = "nil"
              /\ rret.query \in 1..candidates


\* Some sender has sent a result of the type.
Sent(type) == \E s \in DOMAIN c : Count(c[s], type) >= 1

\* The latest result Execute itself has sent is of the type.
LastOfExecute(type) == Len(c[0]) >= 1 /\ c[0][Len(c[0])] = type

\* GroovePipeline.Execute has returned, or the process was ended.
Ended == prog = "pipeline" /\ mpc \in {"done", "aborted", "crashed", "exited"}

\* The run has ended with Done, sent once and after everything Execute
\* itself has sent, and no Error without topic.
EndedWithDone ==
    /\ LastOfExecute("Done")
    /\ Count(c[0], "Done") = 1
    /\ Count(c[0], "Error") = 0

\* The run has ended with an Error without topic, after everything Execute
\* itself has sent, and no Done.
EndedWithError ==
    /\ LastOfExecute("Error")
    /\ Count(c[0], "Done") = 0

\* C33: every run of GroovePipeline.Execute ends with Done sent once as the
\* last result, or with an Error without topic as the last result and no
\* Done; the Measurement result is sent before every TrecResult,
\* Transformation and Evaluation result; nothing is sent after Done or
\* after the final Error.
C33_ChannelProtocol ==
    /\ [](Ended => (EndedWithDone \/ EndedWithError))
    /\ []((prog = "pipeline" /\ (Sent("TrecResult") \/ Sent("Transformation")
                                   \/ Sent("Evaluation")))
              => Count(c[0], "Measurement") = 1)
    /\ [][(prog = "pipeline"
             /\ (Sent("Done") \/ LastOfExecute("Error"))) => c' = c]_vars


\* C34: avgICTF.Execute returns 0.0 and nil for a query without terms and
\* calls the Statistics Source not once; a VocabularySize or
\* TotalTermFrequency call that fails is the last call it makes, and it
\* returns 0.0 together with the error of that call.
C34_StopsAtFirstFailure ==
    fn = "avgICTF" =>
        /\ iterms = 0 => icalls = <<>>
        /\ (iterms = 0 /\ ipc = "returned") =>
              iret = [value |-> "0.0", addends |-> 0, err |-> "nil"]
        /\ \A k \in 1..Len(icalls) :
              icalls[k].err # "nil" =>
                  /\ k = Len(icalls)
                  /\ ipc = "returned"
                  /\ iret = [value |-> "0.0", addends |-> 0,
                             err |-> icalls[k].err]

\* C34 happens: the first field went through with both its terms, the
\* second field's first term failed, and the error of that call came back
\* with 0.0 while sumICTF held two addends.
C34_Witness ==
    /\ fn = "avgICTF"
    /\ iterms = 2 /\ ifields = 2
    /\ Len(icalls) = 5
    /\ icalls[4] = [op |-> "VocabularySize", err |-> "nil"]
    /\ icalls[5] = [op |-> "TotalTermFrequency", err |-> "no such field"]
    /\ iadded = 2
    /\ ipc = "returned"
    /\ iret = [value |-> "0.0", addends |-> 0, err |-> "no such field"]
====
